---- MODULE Spec2Model ----
(***************************************************************************)
(* Model of the dependency-analysis engine of src/lib/analysis.ts:         *)
(* analyzeRepoDependencies (scan, resolve pass, metrics pass, cycle        *)
(* detection, post-processing) and findCircularDependencies.               *)
(*                                                                         *)
(* Strings (paths, import targets, edge ids) are sequences of tokens; a    *)
(* token stands for one or more characters ("/", "-", ".", "..", a name,   *)
(* an extension such as ".ts"), so that joining, splitting and             *)
(* concatenating strings is computed and not assumed.                      *)
(***************************************************************************)
EXTENDS Integers, Sequences, FiniteSets, TLC

\* ------------------------------------------------------------------ strings

\* analysis.ts:20 (5000 in the source; scaled so that the cap is reached)
MAX_FILES == 3
\* analysis.ts:21 (50 in the source; scaled so that several batches run)
IO_BATCH_SIZE == 2
\* analysis.ts:19
TOP_FAN_THRESHOLD == 5

\* path.join(TEMP_DIR, repoId), an absolute path
rootPath == <<"/", "r">>

SEP == "/"

\* tokens whose first character is "."
DotTokens == {".", "..", ".ts", ".tsx", ".js", ".py", ".rb", ".md", ".json"}

\* String.prototype.startsWith for the prefixes the code tests
StartsWithDot(s) == Len(s) > 0 /\ s[1] \in DotTokens
StartsWithSlash(s) == Len(s) > 0 /\ s[1] = SEP
StartsWithAlias(s) == Len(s) > 1 /\ s[1] = "@" /\ s[2] = SEP

RECURSIVE SplitFrom(_, _, _)
\* the "/"-separated segments of s from position i on; cur is the open segment
SplitFrom(s, i, cur) ==
    IF i > Len(s) THEN (IF cur = <<>> THEN <<>> ELSE <<cur>>)
    ELSE IF s[i] = SEP
         THEN (IF cur = <<>> THEN <<>> ELSE <<cur>>) \o SplitFrom(s, i + 1, <<>>)
         ELSE SplitFrom(s, i + 1, Append(cur, s[i]))

\* s.split(path.sep).filter(Boolean)
Segments(s) == SplitFrom(s, 1, <<>>)

RECURSIVE NormalizeSegs(_, _)
\* path normalisation of an absolute path: "." is dropped, ".." pops
NormalizeSegs(segs, acc) ==
    IF segs = <<>> THEN acc
    ELSE IF Head(segs) = <<".">> THEN NormalizeSegs(Tail(segs), acc)
    ELSE IF Head(segs) = <<"..">>
         THEN NormalizeSegs(Tail(segs),
                            IF acc = <<>> THEN acc ELSE SubSeq(acc, 1, Len(acc) - 1))
    ELSE NormalizeSegs(Tail(segs), Append(acc, Head(segs)))

RECURSIVE JoinSegs(_)
\* "/" seg1 "/" seg2 ...
JoinSegs(segs) ==
    IF segs = <<>> THEN <<>> ELSE <<SEP>> \o Head(segs) \o JoinSegs(Tail(segs))

\* path.join(a, b) for an absolute a
PathJoin(a, b) ==
    LET segs == NormalizeSegs(Segments(a \o <<SEP>> \o b), <<>>)
    IN  IF segs = <<>> THEN <<SEP>> ELSE JoinSegs(segs)

\* path.resolve(currentDir, importPath) for an absolute currentDir
PathResolve(currentDir, importPath) ==
    IF StartsWithSlash(importPath) THEN PathJoin(<<SEP>>, importPath)
    ELSE PathJoin(currentDir, importPath)

\* path.dirname of an absolute path
PathDirname(p) ==
    LET segs == Segments(p)
    IN  IF Len(segs) <= 1 THEN <<SEP>> ELSE JoinSegs(SubSeq(segs, 1, Len(segs) - 1))

\* path.basename
PathBasename(p) ==
    LET segs == Segments(p) IN IF segs = <<>> THEN <<>> ELSE segs[Len(segs)]

ExtTokens == {".ts", ".tsx", ".js", ".py", ".rb", ".md", ".json"}

\* path.extname(name).toLowerCase(): the last token when it is an extension
\* and not the whole name, else the empty string
PathExtname(p) ==
    LET b == PathBasename(p)
    IN  IF Len(b) > 1 /\ b[Len(b)] \in ExtTokens THEN b[Len(b)] ELSE ""

\* fullPath.replace(rootPath, ""): the first occurrence, which for a path
\* under the root is its prefix
RelativePath(fullPath) ==
    IF Len(fullPath) >= Len(rootPath) /\ SubSeq(fullPath, 1, Len(rootPath)) = rootPath
    THEN SubSeq(fullPath, Len(rootPath) + 1, Len(fullPath))
    ELSE fullPath

\* ------------------------------------------------------------------ registry

\* LANGUAGE_PARSERS[].extensions of the parsers whose files occur in the
\* model's trees, in registry order
ParserExtensions(name) ==
    IF name = "javascript" THEN <<".ts", ".tsx", ".js">>
    ELSE IF name = "python" THEN <<".py">>
    ELSE IF name = "ruby" THEN <<".rb">>
    ELSE <<>>

\* extToParser.get(ext); "" stands for undefined
ExtToParser(ext) ==
    IF ext \in {".ts", ".tsx", ".js"} THEN "javascript"
    ELSE IF ext = ".py" THEN "python"
    ELSE IF ext = ".rb" THEN "ruby"
    ELSE ""

allSupportedExts == {".ts", ".tsx", ".js", ".py", ".rb"}

allSkipDirs == {<<".git">>, <<"node_modules">>, <<"dist">>, <<"build">>}

allEntryPoints == {<<"index", ".ts">>, <<"main", ".py">>}

PackageJson == <<"package", ".json">>

\* ------------------------------------------------------------------ inputs

\* A JSON value as far as the code distinguishes it: absent, a string (its
\* text), or a truthy value that is no string (a number, an object, true).
JAbsent == [t |-> "absent", s |-> <<>>]
JStr(s) == [t |-> "str", s |-> s]
JNum == [t |-> "num", s |-> <<>>]

\* JavaScript truthiness of a JSON value
Truthy(v) == v.t = "num" \/ (v.t = "str" /\ v.s # <<>>)

\* Text of a package.json: not JSON at all, the JSON text null, or an object
\* with dependencies (package name -> value) and engines.node
ManifestInvalid == [kind |-> "invalid", deps |-> <<>>, enginesNode |-> JAbsent]
ManifestNull == [kind |-> "null", deps |-> <<>>, enginesNode |-> JAbsent]
ManifestObject(deps, node) == [kind |-> "object", deps |-> deps, enginesNode |-> node]

\* the dependencies object of a manifest: a sequence of <<name, value>>
ManifestKinds ==
    { ManifestInvalid, ManifestNull,
      ManifestObject(<<>>, JAbsent),
      ManifestObject(<< <<"react", JStr(<<"^", "18">>)>> >>, JStr(<<">", "=", "18">>)),
      ManifestObject(<< <<"next", JStr(<<"14">>)>>, <<"react", JNum>> >>, JAbsent),
      ManifestObject(<< <<"vue", JStr(<<">", "=", "3">>)>> >>, JAbsent),
      ManifestObject(<<>>, JNum) }

\* What the metrics pass reads off a file's text (calculateCodeMetrics and the
\* /\bany\b/ test): non-blank lines, decision points + 1, comment lines per
\* hundred lines of code, and whether the word any occurs.
Profile(loc, cc, pct, any) ==
    [linesOfCode |-> loc, cyclomaticComplexity |-> cc, commentPct |-> pct, usesAny |-> any]

Profiles ==
    { Profile(10, 1, 50, FALSE),      \* score 0
      Profile(600, 1, 50, FALSE),     \* score 15
      Profile(600, 15, 0, FALSE),     \* score 35
      Profile(600, 25, 0, TRUE),      \* score 50
      Profile(1200, 25, 0, TRUE) }    \* score 60

DefaultProfile == Profile(10, 1, 50, FALSE)

\* One import statement of a file as extractImports returns it
Import(p, specs) == [importPath |-> p, specifiers |-> specs]

\* The text of a file: its import statements in source order, its metrics
\* profile and, for a manifest, its JSON
Content(imports, profile, json) == [imports |-> imports, profile |-> profile, json |-> json]

EmptyContent == Content(<<>>, Profile(0, 1, 0, FALSE), ManifestInvalid)

FileEntry(name) == [name |-> name, kind |-> "file"]
DirEntry(name) == [name |-> name, kind |-> "dir"]

A_TS == <<"a", ".ts">>
B_TS == <<"b", ".ts">>
C_TS == <<"c", ".ts">>

\* A tree: the listing of every directory (in readdir order), the text of
\* every file, and the directories whose listing fails
Tree(dirs, content, unlistable) ==
    [dirs |-> dirs, content |-> content, unlistable |-> unlistable]

\* the import statements the trees draw from
ImportStmts ==
    { Import(<<".", "/", "a">>, <<"x">>),
      Import(<<".", "/", "b">>, <<"x">>),
      Import(<<".", "/", "b">>, <<"y">>),
      Import(<<".", "/", "c", ".ts">>, <<"x">>) }

\* total number of import statements in a tree of GraphTrees
MaxTotalImports == 3
\* number of import statements in one file
MaxFileImports == 2

\* the import lists of the three files: every choice of lengths within the
\* bounds, and every choice of statements of those lengths
ImportTriples(maxTotal, maxFile) ==
    UNION { [1..l[1] -> ImportStmts] \X [1..l[2] -> ImportStmts] \X [1..l[3] -> ImportStmts] :
            l \in { m \in (0..maxFile) \X (0..maxFile) \X (0..maxFile) :
                       m[1] + m[2] + m[3] <= maxTotal } }

\* three source files in the root, importing each other in every way
GraphTrees(maxTotal, maxFile) ==
    { Tree( (rootPath :> <<FileEntry(A_TS), FileEntry(B_TS), FileEntry(C_TS)>>),
            (PathJoin(rootPath, A_TS) :> Content(ia, DefaultProfile, ManifestInvalid))
            @@ (PathJoin(rootPath, B_TS) :> Content(ib, DefaultProfile, ManifestInvalid))
            @@ (PathJoin(rootPath, C_TS) :> Content(ic, DefaultProfile, ManifestInvalid)),
            {} ) :
      <<ia, ib, ic>> \in ImportTriples(maxTotal, maxFile) }

\* two source files of every profile: a imports b, and b imports a, or an
\* external package, or nothing
RiskTrees ==
    { Tree( (rootPath :> <<FileEntry(A_TS), FileEntry(B_TS)>>),
            (PathJoin(rootPath, A_TS) :>
                Content(<<Import(<<".", "/", "b">>, <<"x">>)>>, pa, ManifestInvalid))
            @@ (PathJoin(rootPath, B_TS) :> Content(ib, pb, ManifestInvalid)),
            {} ) :
      <<pa, pb, ib>> \in Profiles \X Profiles
                         \X {<<>>, <<Import(<<".", "/", "a">>, <<"x">>)>>,
                             <<Import(<<"react">>, <<"x">>)>>} }

\* nested directories r/d/e with files before and after each subdirectory
DirD == PathJoin(rootPath, <<"d">>)
DirE == PathJoin(DirD, <<"e">>)

RECURSIVE Keep(_, _)
\* the entries of a listing that are present
Keep(entries, absent) ==
    IF entries = <<>> THEN <<>>
    ELSE (IF Head(entries).name \in absent THEN <<>> ELSE <<Head(entries)>>)
         \o Keep(Tail(entries), absent)

OptionalFiles == {A_TS, C_TS, <<"f", ".md">>, PackageJson}

ScanTrees ==
    { Tree( (rootPath :> Keep(<<FileEntry(A_TS), DirEntry(<<"d">>),
                                DirEntry(<<"node_modules">>), FileEntry(PackageJson),
                                FileEntry(<<"index", ".ts">>), FileEntry(<<"n", ".md">>)>>,
                              absent))
            @@ (DirD :> Keep(<<FileEntry(C_TS), DirEntry(<<"e">>),
                               FileEntry(<<"m", ".md">>)>>, absent))
            @@ (DirE :> Keep(<<FileEntry(<<"f", ".md">>), FileEntry(<<"g", ".md">>),
                               FileEntry(<<"h", ".md">>)>>, absent)),
            (PathJoin(rootPath, A_TS) :> Content(<<>>, DefaultProfile, ManifestInvalid))
            @@ (PathJoin(DirD, C_TS) :> Content(<<>>, DefaultProfile, ManifestInvalid))
            @@ (PathJoin(rootPath, PackageJson) :> Content(<<>>, DefaultProfile, m)),
            bad ) :
      <<absent, m, bad>> \in (SUBSET OptionalFiles) \X ManifestKinds
                              \X {{}, {rootPath}, {DirD}, {DirE}} }

M_RB == <<"m", ".rb">>
X_RB == <<"x", ".rb">>

\* a Ruby file in the root that requires the file d/x.rb by a path from the
\* root directory, by a path from its own directory, or by a dotted path
RubyTrees ==
    { Tree( (rootPath :> <<FileEntry(M_RB), DirEntry(<<"d">>)>>)
            @@ (DirD :> <<FileEntry(X_RB)>>),
            (PathJoin(rootPath, M_RB) :>
                Content(<<Import(p, <<>>)>>, DefaultProfile, ManifestInvalid))
            @@ (PathJoin(DirD, X_RB) :> Content(<<>>, DefaultProfile, ManifestInvalid)),
            {} ) :
      p \in {<<SEP, "d", SEP, "x">>, <<"d", SEP, "x">>, <<".", SEP, "d", SEP, "x">>} }

M_PY == <<"m", ".py">>
MOD_PY == <<"mod", ".py">>
Y_PY == <<"y", ".py">>

\* a Python file in the root that imports the module mod of its directory
\* in the relative form (.mod) or by its name, or the module d.y
PythonTrees ==
    { Tree( (rootPath :> <<FileEntry(M_PY), FileEntry(MOD_PY), DirEntry(<<"d">>)>>)
            @@ (DirD :> <<FileEntry(Y_PY)>>),
            (PathJoin(rootPath, M_PY) :>
                Content(<<Import(p, <<"X">>)>>, DefaultProfile, ManifestInvalid))
            @@ (PathJoin(rootPath, MOD_PY) :> Content(<<>>, DefaultProfile, ManifestInvalid))
            @@ (PathJoin(DirD, Y_PY) :> Content(<<>>, DefaultProfile, ManifestInvalid)),
            {} ) :
      p \in {<<".", "mod">>, <<"mod">>, <<"d", ".", "y">>} }

\* a.ts imports "./b" where up to two of b/index.ts, b.js, b.ts and b.tsx exist
ProbeTrees ==
    { Tree( (rootPath :> Keep(<<FileEntry(A_TS), DirEntry(<<"b">>), FileEntry(<<"b", ".js">>),
                                FileEntry(B_TS), FileEntry(<<"b", ".tsx">>)>>, absent))
            @@ (PathJoin(rootPath, <<"b">>) :> <<FileEntry(<<"index", ".ts">>)>>),
            (PathJoin(rootPath, A_TS) :>
                Content(<<Import(<<".", SEP, "b">>, <<"x">>)>>, DefaultProfile,
                        ManifestInvalid))
            @@ [f \in {PathJoin(rootPath, <<"b", SEP, "index", ".ts">>),
                       PathJoin(rootPath, <<"b", ".js">>), PathJoin(rootPath, B_TS),
                       PathJoin(rootPath, <<"b", ".tsx">>)} |->
                   Content(<<>>, DefaultProfile, ManifestInvalid)],
            {} ) :
      absent \in {x \in SUBSET {<<"b">>, <<"b", ".js">>, B_TS, <<"b", ".tsx">>} :
                     Cardinality(x) >= 2} }

Trees(maxTotal, maxFile) ==
    GraphTrees(maxTotal, maxFile) \cup RiskTrees \cup ScanTrees \cup RubyTrees
    \cup PythonTrees \cup ProbeTrees

\* ------------------------------------------------------------------ state

VARIABLES
    pc,                   \* where analyzeRepoDependencies is: "start", "scan",
                          \* "resolve", "metrics", "done" (returned), "threw" (rejected)
    tree,                 \* the directory tree under rootPath (the input)
    scanStack,            \* the active calls of scan: <<[path, i]>>, innermost last
    stats,                \* ProjectStats
    rootPackageJson,      \* the parsed root package.json, or ManifestNull
    frameworkVersionsMap, \* framework name -> version text
    nodes,                \* GraphNode[] in scan order
    fileMap,              \* the keys of fileMap (each maps to itself)
    contentCache,         \* contentCache: path -> text
    edges,                \* GraphEdge[] in insertion order
    addedEdges,           \* the edge ids already added
    incomingEdgeCounts,   \* node id -> count
    outgoingEdgeCounts,   \* node id -> count
    batchStart,           \* processInBatches: the loop index i (1-based)
    inflight,             \* indices of the callbacks of the batch not yet completed
    totalQualityScore,
    result,               \* the DependencyGraph returned
    reads,                \* path -> number of fs.readFile calls made for it
    resolveCount,         \* node index -> runs of the resolve pass callback
    metricsCount,         \* node index -> runs of the metrics pass callback
    runs,                 \* overlapping calls of analyzeRepoDependencies in one
                          \* process: run -> [pc, i, pending, reads, cached]
    repoDir,              \* the repository's local directory: "absent", "partial"
                          \* (created, not completely extracted) or "complete"
    analysisCache,        \* analysisCache: repo id -> [data, timestamp]
    now,                  \* Date.now()
    calls                 \* the server actions in progress: call -> [op, pc, ...]

vars == <<pc, tree, scanStack, stats, rootPackageJson, frameworkVersionsMap, nodes,
          fileMap, contentCache, edges, addedEdges, incomingEdgeCounts,
          outgoingEdgeCounts, batchStart, inflight, totalQualityScore, result,
          reads, resolveCount, metricsCount, runs, repoDir, analysisCache, now, calls>>

\* what the run did, kept for the properties: the program has no such fields
logVars == <<reads, resolveCount, metricsCount>>

\* the state of the process around one call of analyzeRepoDependencies
repoVars == <<repoDir, analysisCache, now, calls>>
serverVars == <<runs, repoVars>>

scanVars == <<stats, rootPackageJson, frameworkVersionsMap, nodes, fileMap, contentCache>>
graphVars == <<edges, addedEdges, incomingEdgeCounts, outgoingEdgeCounts>>

EmptyMap == <<>>

\* Map.get(k) || 0
CountOf(m, k) == IF k \in DOMAIN m THEN m[k] ELSE 0

\* Map.set(k, v)
MapSet(m, k, v) == [x \in (DOMAIN m) \cup {k} |-> IF x = k THEN v ELSE m[x]]

\* no server action is in progress and nothing is cached or downloaded
RepoIdle ==
    /\ repoDir = "absent"
    /\ analysisCache = EmptyMap
    /\ now = 0
    /\ calls = EmptyMap

\* no other call is in progress
ServerIdle == runs = EmptyMap /\ RepoIdle

NoResult == [kind |-> "none"]

\* the stats object as constructed; frameworkVersions and languageVersions are
\* undefined until step 7 sets them
EmptyStats == [languages |-> EmptyMap, frameworks |-> <<>>, entryPoints |-> <<>>,
               totalFiles |-> 0, frameworkVersions |-> <<>>,
               languageVersions |-> EmptyMap]

Init ==
    /\ pc = "start"
    /\ tree \in Trees(MaxTotalImports, MaxFileImports)
    /\ scanStack = <<>>
    /\ stats = EmptyStats
    /\ rootPackageJson = ManifestNull
    /\ frameworkVersionsMap = EmptyMap
    /\ nodes = <<>>
    /\ fileMap = {}
    /\ contentCache = EmptyMap
    /\ edges = <<>>
    /\ addedEdges = {}
    /\ incomingEdgeCounts = EmptyMap
    /\ outgoingEdgeCounts = EmptyMap
    /\ batchStart = 1
    /\ inflight = {}
    /\ totalQualityScore = 0
    /\ result = NoResult
    /\ reads = EmptyMap
    /\ resolveCount = EmptyMap
    /\ metricsCount = EmptyMap
    /\ ServerIdle

\* ------------------------------------------------------------------ content cache

\* fs.readFile(filePath, "utf-8"): the text, or a failure that getCachedContent
\* turns into the empty string
ReadFile(filePath) ==
    IF filePath \in DOMAIN tree.content THEN tree.content[filePath] ELSE EmptyContent

\* mutant: a failed read is not stored
CacheAfterGetSkipFailed(cache, filePath) ==
    IF filePath \in DOMAIN cache \/ filePath \notin DOMAIN tree.content THEN cache
    ELSE MapSet(cache, filePath, ReadFile(filePath))

\* getCachedContent: the cache after the call
CacheAfterGet(cache, filePath) ==
    IF filePath \in DOMAIN cache THEN cache ELSE MapSet(cache, filePath, ReadFile(filePath))

\* getCachedContent: the fs.readFile calls made so far, after the call
ReadsAfterGet(cache, rd, filePath) ==
    IF filePath \in DOMAIN cache THEN rd
    ELSE MapSet(rd, filePath, CountOf(rd, filePath) + 1)

\* getCachedContent: the text returned
CachedContent(cache, filePath) ==
    IF filePath \in DOMAIN cache THEN cache[filePath] ELSE ReadFile(filePath)

\* ------------------------------------------------------------------ manifests

\* fwMapping of parseNodeManifest, its first entries in insertion order
FwMapping == << <<"next", "Next.js">>, <<"react", "React">>, <<"vue", "Vue">> >>

RECURSIVE DepLookup(_, _)
\* allDeps[pkg]
DepLookup(deps, pkg) ==
    IF deps = <<>> THEN JAbsent
    ELSE IF deps[Len(deps)][1] = pkg THEN deps[Len(deps)][2]
    ELSE DepLookup(SubSeq(deps, 1, Len(deps) - 1), pkg)

\* ver.replace(/^[\^~]/, "")
StripCaretTilde(s) == IF Len(s) > 0 /\ s[1] \in {"^", "~"} THEN Tail(s) ELSE s

RECURSIVE StripRangeOps(_)
\* node.replace(/^[\^~>=]+/, "")
StripRangeOps(s) ==
    IF Len(s) > 0 /\ s[1] \in {"^", "~", ">", "="} THEN StripRangeOps(Tail(s)) ELSE s

RECURSIVE NodeManifestLoop(_, _, _, _)
\* the for loop of parseNodeManifest from entry i on; a value that is truthy and
\* no string makes ver.replace throw, and the catch returns []
NodeManifestLoop(deps, i, detected, fwMap) ==
    IF i > Len(FwMapping) THEN [detected |-> detected, fwMap |-> fwMap]
    ELSE LET ver == DepLookup(deps, FwMapping[i][1])
             name == FwMapping[i][2]
         IN  IF ~Truthy(ver) THEN NodeManifestLoop(deps, i + 1, detected, fwMap)
             ELSE IF ver.t # "str" THEN [detected |-> <<>>, fwMap |-> fwMap]
             ELSE NodeManifestLoop(deps, i + 1, Append(detected, name),
                                   MapSet(fwMap, name, StripCaretTilde(ver.s)))

\* parseNodeManifest(content, fwMap): the detected names and fwMap afterwards
parseNodeManifest(json, fwMap) ==
    IF json.kind # "object" THEN [detected |-> <<>>, fwMap |-> fwMap]
    ELSE NodeManifestLoop(json.deps, 1, <<>>, fwMap)

RECURSIVE UnionSeq(_, _)
\* Array.from(new Set([...a, ...b]))
UnionSeq(a, b) ==
    IF b = <<>> THEN a
    ELSE UnionSeq(IF \E i \in 1..Len(a) : a[i] = Head(b) THEN a ELSE Append(a, Head(b)),
                  Tail(b))

\* ------------------------------------------------------------------ scan

\* fs.readdir(path) succeeds
Listable(path) == path \in DOMAIN tree.dirs /\ path \notin tree.unlistable

\* the object returned when the scan throws: no nodes, no edges, and the stats
\* object as the scan left it
ScanFailedResult(st) ==
    [kind |-> "scanFailed", nodes |-> <<>>, edges |-> <<>>, stats |-> st,
     circularDependencies |-> <<>>, highFanInIds |-> <<>>, highFanOutIds |-> <<>>]

NewNode(fullPath, name) ==
    [id |-> fullPath, label |-> name, path |-> RelativePath(fullPath),
     riskLevel |-> "low", scored |-> FALSE, fanIn |-> 0, fanOut |-> 0,
     inCycle |-> FALSE, moduleRole |-> "",
     riskDetail |-> [level |-> "low", score |-> 0, factors |-> <<>>]]

\* s.split(path.sep).length
SplitLength(s) == Cardinality({i \in 1..Len(s) : s[i] = SEP}) + 1

\* contentCache.clear(); await scan(rootPath): the listing of the root succeeds
BeginScan ==
    /\ pc = "start"
    /\ Listable(rootPath)
    /\ contentCache' = EmptyMap
    /\ scanStack' = <<[path |-> rootPath, i |-> 1]>>
    /\ pc' = "scan"
    /\ UNCHANGED logVars
    /\ UNCHANGED serverVars
    /\ UNCHANGED <<tree, stats, rootPackageJson, frameworkVersionsMap, nodes, fileMap,
                   graphVars, batchStart, inflight, totalQualityScore, result>>

\* the listing of the root throws: the catch returns the empty graph
BeginScanFails ==
    /\ pc = "start"
    /\ ~Listable(rootPath)
    /\ contentCache' = EmptyMap
    /\ result' = ScanFailedResult(stats)
    /\ pc' = "done"
    /\ UNCHANGED logVars
    /\ UNCHANGED serverVars
    /\ UNCHANGED <<tree, scanStack, stats, rootPackageJson, frameworkVersionsMap, nodes,
                   fileMap, graphVars, batchStart, inflight, totalQualityScore>>

Top == scanStack[Len(scanStack)]
TopEntries == tree.dirs[Top.path]
Entry == TopEntries[Top.i]

\* the innermost scan returns: its caller goes on, or the scan is over
PopFrame ==
    /\ scanStack' = SubSeq(scanStack, 1, Len(scanStack) - 1)
    /\ pc' = IF Len(scanStack) = 1 THEN "resolve" ELSE "scan"
    /\ batchStart' = 1
    /\ inflight' = {}

Advance == scanStack' = [scanStack EXCEPT ![Len(scanStack)].i = @ + 1]

\* the for loop of the innermost scan has no entry left
ScanLoopEnd ==
    /\ pc = "scan"
    /\ Top.i > Len(TopEntries)
    /\ PopFrame
    /\ UNCHANGED logVars
    /\ UNCHANGED serverVars
    /\ UNCHANGED <<tree, scanVars, graphVars, totalQualityScore, result>>

\* mutant: the cap test is off by one
CapExceededLate(totalFiles) == totalFiles > MAX_FILES + 1

\* the cap test of the loop body
CapExceeded(totalFiles) == totalFiles > MAX_FILES

\* if (stats.totalFiles > MAX_FILES) return
ScanCapReturn ==
    /\ pc = "scan"
    /\ Top.i <= Len(TopEntries)
    /\ CapExceeded(stats.totalFiles)
    /\ PopFrame
    /\ UNCHANGED logVars
    /\ UNCHANGED serverVars
    /\ UNCHANGED <<tree, scanVars, graphVars, totalQualityScore, result>>

\* a directory of allSkipDirs: continue
ScanSkipDir ==
    /\ pc = "scan"
    /\ Top.i <= Len(TopEntries)
    /\ ~CapExceeded(stats.totalFiles)
    /\ Entry.kind = "dir"
    /\ Entry.name \in allSkipDirs
    /\ Advance
    /\ UNCHANGED logVars
    /\ UNCHANGED serverVars
    /\ UNCHANGED <<pc, tree, scanVars, graphVars, batchStart, inflight,
                   totalQualityScore, result>>

\* await scan(fullPath): the listing succeeds and the nested loop starts
ScanEnterDir ==
    /\ pc = "scan"
    /\ Top.i <= Len(TopEntries)
    /\ ~CapExceeded(stats.totalFiles)
    /\ Entry.kind = "dir"
    /\ Entry.name \notin allSkipDirs
    /\ Listable(PathJoin(Top.path, Entry.name))
    /\ scanStack' = Append([scanStack EXCEPT ![Len(scanStack)].i = @ + 1],
                           [path |-> PathJoin(Top.path, Entry.name), i |-> 1])
    /\ UNCHANGED logVars
    /\ UNCHANGED serverVars
    /\ UNCHANGED <<pc, tree, scanVars, graphVars, batchStart, inflight,
                   totalQualityScore, result>>

\* await scan(fullPath): the listing throws, every enclosing scan rejects and
\* the catch of analyzeRepoDependencies returns
ScanDirFails ==
    /\ pc = "scan"
    /\ Top.i <= Len(TopEntries)
    /\ ~CapExceeded(stats.totalFiles)
    /\ Entry.kind = "dir"
    /\ Entry.name \notin allSkipDirs
    /\ ~Listable(PathJoin(Top.path, Entry.name))
    /\ scanStack' = <<>>
    /\ result' = ScanFailedResult(stats)
    /\ pc' = "done"
    /\ UNCHANGED logVars
    /\ UNCHANGED serverVars
    /\ UNCHANGED <<tree, scanVars, graphVars, batchStart, inflight, totalQualityScore>>

\* the body of the loop for a file entry
ScanFile ==
    /\ pc = "scan"
    /\ Top.i <= Len(TopEntries)
    /\ ~CapExceeded(stats.totalFiles)
    /\ Entry.kind = "file"
    /\ LET fullPath == PathJoin(Top.path, Entry.name)
           relativePath == RelativePath(fullPath)
           ext == PathExtname(Entry.name)
           languages1 == IF ext # "" THEN MapSet(stats.languages, ext,
                                                 CountOf(stats.languages, ext) + 1)
                         ELSE stats.languages
           isManifest == Entry.name = PackageJson
           cache1 == IF isManifest THEN CacheAfterGet(contentCache, fullPath)
                     ELSE contentCache
           reads1 == IF isManifest THEN ReadsAfterGet(contentCache, reads, fullPath)
                     ELSE reads
           json == CachedContent(contentCache, fullPath).json
           parsed == parseNodeManifest(json, frameworkVersionsMap)
           frameworks1 == IF isManifest THEN UnionSeq(stats.frameworks, parsed.detected)
                          ELSE stats.frameworks
           isRoot == Len(Segments(relativePath)) <= 1
           isEntry == Entry.name \in allEntryPoints /\ SplitLength(relativePath) <= 4
           entryPoints1 == IF isEntry THEN Append(stats.entryPoints, relativePath)
                           ELSE stats.entryPoints
           isCode == ext \in allSupportedExts
       IN  /\ stats' = [stats EXCEPT !.languages = languages1,
                                      !.frameworks = frameworks1,
                                      !.entryPoints = entryPoints1,
                                      !.totalFiles = @ + 1]
           /\ frameworkVersionsMap' = IF isManifest THEN parsed.fwMap
                                      ELSE frameworkVersionsMap
           /\ rootPackageJson' = IF isManifest /\ isRoot /\ json.kind # "invalid"
                                 THEN json ELSE rootPackageJson
           /\ contentCache' = IF isCode THEN CacheAfterGet(cache1, fullPath) ELSE cache1
           /\ reads' = IF isCode THEN ReadsAfterGet(cache1, reads1, fullPath) ELSE reads1
           /\ nodes' = IF isCode THEN Append(nodes, NewNode(fullPath, Entry.name))
                       ELSE nodes
           /\ fileMap' = IF isCode THEN fileMap \cup {fullPath} ELSE fileMap
    /\ Advance
    /\ UNCHANGED <<pc, tree, graphVars, batchStart, inflight, totalQualityScore, result,
                   resolveCount, metricsCount>>
    /\ UNCHANGED serverVars

\* ------------------------------------------------------------------ resolve pass

\* resolveImportPath(currentDir, importPath)
resolveImportPath(currentDir, importPath) ==
    IF StartsWithDot(importPath) THEN PathResolve(currentDir, importPath)
    ELSE importPath

RECURSIVE DropLeadingDots(_)
\* importPath.replace(/^\.+/, ""): a dotted module path without the dots in
\* front of it
DropLeadingDots(importPath) ==
    IF importPath # <<>> /\ Head(importPath) \in {".", ".."}
    THEN DropLeadingDots(Tail(importPath)) ELSE importPath

\* path.join(..., ...importPath.split(".")): the segments of a dotted module
\* path, joined as a directory path
DottedAsPath(importPath) ==
    [i \in 1..Len(importPath) |-> IF importPath[i] = "." THEN SEP ELSE importPath[i]]

\* the candidate path of one import of the file nodeId; <<>> is the empty
\* string, for which the loop continues
ResolvedPath(nodeId, importPath) ==
    LET parser == ExtToParser(PathExtname(nodeId))
        currentDir == PathDirname(nodeId)
    IN  IF parser = "javascript"
        THEN IF StartsWithAlias(importPath)
             THEN PathJoin(rootPath, SubSeq(importPath, 3, Len(importPath)))
             ELSE IF StartsWithDot(importPath)
                  THEN resolveImportPath(currentDir, importPath)
                  ELSE <<>>
        ELSE IF StartsWithDot(importPath) \/ StartsWithSlash(importPath)
             THEN resolveImportPath(currentDir, importPath)
             ELSE IF parser = "python"
                  THEN IF StartsWithDot(importPath)
                       THEN PathJoin(currentDir, DottedAsPath(DropLeadingDots(importPath)))
                       ELSE PathJoin(rootPath, DottedAsPath(importPath))
                  ELSE IF parser = "ruby"
                       THEN IF StartsWithSlash(importPath)
                            THEN PathJoin(rootPath, importPath)
                            ELSE PathJoin(currentDir, importPath)
                       ELSE <<>>

\* mutant: the index files are probed before the plain extensions
TryExtsIndexFirst(parser) ==
    LET exts == ParserExtensions(parser)
    IN  [i \in 1..Len(exts) |-> <<SEP, "index", exts[i]>>]
        \o [i \in 1..Len(exts) |-> <<exts[i]>>]

\* [...extensions, ...extensions.map(e => "/index" + e)]
TryExts(parser) ==
    LET exts == ParserExtensions(parser)
    IN  [i \in 1..Len(exts) |-> <<exts[i]>>]
        \o [i \in 1..Len(exts) |-> <<SEP, "index", exts[i]>>]

RECURSIVE ProbeFrom(_, _, _, _)
\* the first resolvedPath + tryExt that is a key of fileMap; <<>> is undefined
ProbeFrom(fm, resolvedPath, tryExts, i) ==
    IF i > Len(tryExts) THEN <<>>
    ELSE IF (resolvedPath \o tryExts[i]) \in fm THEN resolvedPath \o tryExts[i]
    ELSE ProbeFrom(fm, resolvedPath, tryExts, i + 1)

\* targetNodeId for a candidate path
TargetNodeId(fm, nodeId, resolvedPath) ==
    IF resolvedPath \in fm THEN resolvedPath
    ELSE ProbeFrom(fm, resolvedPath, TryExts(ExtToParser(PathExtname(nodeId))), 1)

\* mutant: the edge id leaves out the importing file
EdgeIdTargetOnly(source, target) == target

\* `${node.id}-${targetNodeId}`
EdgeId(source, target) == source \o <<"-">> \o target

\* mutant: the target is not compared with the importing file
IsEdgeTargetAllowSelf(nodeId, targetNodeId) == targetNodeId # <<>>

\* the test that guards the edge construction
IsEdgeTarget(nodeId, targetNodeId) == targetNodeId # <<>> /\ targetNodeId # nodeId

\* edges.find((e) => e.id === edgeId): its index, 0 when there is none
FindEdge(es, edgeId) ==
    IF \E i \in 1..Len(es) : es[i].id = edgeId
    THEN CHOOSE i \in 1..Len(es) :
            es[i].id = edgeId /\ \A j \in 1..(i - 1) : es[j].id # edgeId
    ELSE 0

\* the counters after a new edge source -> target
CountEdge(g, source, target) ==
    [g EXCEPT !.incoming = MapSet(@, target, CountOf(@, target) + 1),
              !.outgoing = MapSet(@, source, CountOf(@, source) + 1)]

\* mutant: the counters are incremented for every statement, merged or not
AddOrMergeEdgeCountEach(g, nodeId, targetNodeId, specifiers) ==
    LET edgeId == EdgeId(nodeId, targetNodeId)
    IN  IF edgeId \notin g.added
        THEN CountEdge([g EXCEPT !.edges = Append(@, [id |-> edgeId, source |-> nodeId,
                                                       target |-> targetNodeId,
                                                       imports |-> specifiers]),
                                 !.added = @ \cup {edgeId}],
                       nodeId, targetNodeId)
        ELSE LET k == FindEdge(g.edges, edgeId)
             IN  IF k = 0 THEN g
                 ELSE CountEdge([g EXCEPT !.edges[k].imports = UnionSeq(@, specifiers)],
                                nodeId, targetNodeId)

\* mutant: a later statement's specifiers replace the edge's list
AddOrMergeEdgeOverwrite(g, nodeId, targetNodeId, specifiers) ==
    LET edgeId == EdgeId(nodeId, targetNodeId)
    IN  IF edgeId \notin g.added
        THEN CountEdge([g EXCEPT !.edges = Append(@, [id |-> edgeId, source |-> nodeId,
                                                       target |-> targetNodeId,
                                                       imports |-> specifiers]),
                                 !.added = @ \cup {edgeId}],
                       nodeId, targetNodeId)
        ELSE LET k == FindEdge(g.edges, edgeId)
             IN  IF k = 0 THEN g
                 ELSE [g EXCEPT !.edges[k].imports = specifiers]

\* the body of the loop over imports for one import whose target is known:
\* g is [edges, added, incoming, outgoing]
AddOrMergeEdge(g, nodeId, targetNodeId, specifiers) ==
    LET edgeId == EdgeId(nodeId, targetNodeId)
    IN  IF edgeId \notin g.added
        THEN CountEdge([g EXCEPT !.edges = Append(@, [id |-> edgeId, source |-> nodeId,
                                                       target |-> targetNodeId,
                                                       imports |-> specifiers]),
                                 !.added = @ \cup {edgeId}],
                       nodeId, targetNodeId)
        ELSE LET k == FindEdge(g.edges, edgeId)
             IN  IF k = 0 THEN g
                 ELSE [g EXCEPT !.edges[k].imports = UnionSeq(@, specifiers)]

RECURSIVE ResolveImports(_, _, _, _, _)
\* for (const imp of imports) { ... } from import i on
ResolveImports(g, fm, nodeId, imports, i) ==
    IF i > Len(imports) THEN g
    ELSE LET resolvedPath == ResolvedPath(nodeId, imports[i].importPath)
             targetNodeId == IF resolvedPath = <<>> THEN <<>>
                             ELSE TargetNodeId(fm, nodeId, resolvedPath)
         IN  ResolveImports(IF IsEdgeTarget(nodeId, targetNodeId)
                            THEN AddOrMergeEdge(g, nodeId, targetNodeId,
                                                imports[i].specifiers)
                            ELSE g,
                            fm, nodeId, imports, i + 1)

\* items.slice(i, i + batchSize): the indices of the batch that starts at i
\* mutant: the whole rest of the list is started at once
BatchIndicesAll(i, n) == {k \in 1..n : k >= i}

\* mutant: the slice is one item short
BatchIndicesShort(i, n) == {k \in 1..n : k >= i /\ k < i + IO_BATCH_SIZE - 1}

BatchIndices(i, n) == {k \in 1..n : k >= i /\ k < i + IO_BATCH_SIZE}

\* processInBatches: the callbacks of the next batch are called; each runs up to
\* its await of getCachedContent
ResolveStartBatch ==
    /\ pc = "resolve"
    /\ inflight = {}
    /\ batchStart <= Len(nodes)
    /\ inflight' = BatchIndices(batchStart, Len(nodes))
    /\ UNCHANGED logVars
    /\ UNCHANGED serverVars
    /\ UNCHANGED <<pc, tree, scanStack, scanVars, graphVars, batchStart,
                   totalQualityScore, result>>

\* the rest of the callback of node k, which runs without suspending; the
\* callbacks of a batch resume in any order
ResolveNode(k) ==
    /\ pc = "resolve"
    /\ k \in inflight
    /\ \E g \in {ResolveImports([edges |-> edges, added |-> addedEdges,
                                  incoming |-> incomingEdgeCounts,
                                  outgoing |-> outgoingEdgeCounts],
                                 fileMap, nodes[k].id,
                                 CachedContent(contentCache, nodes[k].id).imports, 1)} :
           /\ edges' = g.edges
           /\ addedEdges' = g.added
           /\ incomingEdgeCounts' = g.incoming
           /\ outgoingEdgeCounts' = g.outgoing
    /\ contentCache' = CacheAfterGet(contentCache, nodes[k].id)
    /\ reads' = ReadsAfterGet(contentCache, reads, nodes[k].id)
    /\ resolveCount' = MapSet(resolveCount, k, CountOf(resolveCount, k) + 1)
    /\ inflight' = inflight \ {k}
    /\ batchStart' = IF inflight = {k} THEN batchStart + IO_BATCH_SIZE ELSE batchStart
    /\ UNCHANGED <<pc, tree, scanStack, stats, rootPackageJson, frameworkVersionsMap,
                   nodes, fileMap, totalQualityScore, result, metricsCount>>
    /\ UNCHANGED serverVars

\* the resolve pass is over: the metrics pass begins
ResolveEnd ==
    /\ pc = "resolve"
    /\ inflight = {}
    /\ batchStart > Len(nodes)
    /\ pc' = "metrics"
    /\ batchStart' = 1
    /\ UNCHANGED logVars
    /\ UNCHANGED serverVars
    /\ UNCHANGED <<tree, scanStack, scanVars, graphVars, inflight,
                   totalQualityScore, result>>

\* ------------------------------------------------------------------ risk

\* path.endsWith(".ts") || path.endsWith(".tsx")
IsTsPath(p) == Len(p) > 0 /\ p[Len(p)] \in {".ts", ".tsx"}

RiskLevelOf(score) == IF score > 50 THEN "high" ELSE IF score > 25 THEN "medium" ELSE "low"

\* one "if (cond) { score += pts; factors.push(f) }" of calculateRiskV2
Penalty(r, cond, pts, f) ==
    IF cond THEN [score |-> r.score + pts, factors |-> Append(r.factors, f)] ELSE r

\* calculateRiskV2(node, content, metrics)
calculateRiskV2(node, profile) ==
    LET r0 == [score |-> 0, factors |-> <<>>]
        r1 == Penalty(r0, profile.linesOfCode > 500, 15, "Large file (>500 LOC)")
        r2 == Penalty(r1, profile.linesOfCode > 1000, 10, "Very large file (>1000 LOC)")
        r3 == IF profile.cyclomaticComplexity > 20
              THEN Penalty(r2, TRUE, 20, "High complexity")
              ELSE Penalty(r2, profile.cyclomaticComplexity > 10, 10, "Moderate complexity")
        r4 == Penalty(r3, profile.commentPct < 5 /\ profile.linesOfCode > 100, 10,
                      "Low documentation")
        r5 == IF node.fanIn > 10
              THEN Penalty(r4, TRUE, 20, "Heavily depended on (high fan-in)")
              ELSE Penalty(r4, node.fanIn > 5, 10, "Moderate fan-in")
        r6 == Penalty(r5, node.fanOut > 15, 10, "Too many dependencies (high fan-out)")
        r7 == Penalty(r6, node.inCycle, 15, "In circular dependency")
        r8 == Penalty(r7, profile.usesAny /\ IsTsPath(node.path), 5, "Uses 'any' type")
    IN  [level |-> RiskLevelOf(r8.score), score |-> r8.score, factors |-> r8.factors]

\* Math.max(0, 100 - risk.score)
NodeQuality(score) == IF 100 - score > 0 THEN 100 - score ELSE 0

\* ------------------------------------------------------------------ metrics pass

MetricsStartBatch ==
    /\ pc = "metrics"
    /\ inflight = {}
    /\ batchStart <= Len(nodes)
    /\ inflight' = BatchIndices(batchStart, Len(nodes))
    /\ UNCHANGED logVars
    /\ UNCHANGED serverVars
    /\ UNCHANGED <<pc, tree, scanStack, scanVars, graphVars, batchStart,
                   totalQualityScore, result>>

\* the node after the callback of the metrics pass
MeasuredNode(node, profile, incoming, outgoing) ==
    LET n1 == [node EXCEPT !.fanIn = CountOf(incoming, node.id),
                           !.fanOut = CountOf(outgoing, node.id)]
        risk == calculateRiskV2(n1, profile)
    IN  [n1 EXCEPT !.riskLevel = risk.level, !.riskDetail = risk, !.scored = TRUE]

\* the rest of the callback of node k in the metrics pass
MetricsNode(k) ==
    /\ pc = "metrics"
    /\ k \in inflight
    /\ \E measured \in {MeasuredNode(nodes[k],
                                      CachedContent(contentCache, nodes[k].id).profile,
                                      incomingEdgeCounts, outgoingEdgeCounts)} :
           /\ nodes' = [nodes EXCEPT ![k] = measured]
           /\ totalQualityScore' = totalQualityScore + NodeQuality(measured.riskDetail.score)
    /\ contentCache' = CacheAfterGet(contentCache, nodes[k].id)
    /\ reads' = ReadsAfterGet(contentCache, reads, nodes[k].id)
    /\ metricsCount' = MapSet(metricsCount, k, CountOf(metricsCount, k) + 1)
    /\ inflight' = inflight \ {k}
    /\ batchStart' = IF inflight = {k} THEN batchStart + IO_BATCH_SIZE ELSE batchStart
    /\ UNCHANGED <<pc, tree, scanStack, stats, rootPackageJson, frameworkVersionsMap,
                   fileMap, graphVars, result, resolveCount>>
    /\ UNCHANGED serverVars

\* ------------------------------------------------------------------ Tarjan

\* idToIndex.get(id): the last position of id in nodes, 0 for undefined
IdToIndex(ns, id) ==
    IF \E i \in 1..Len(ns) : ns[i].id = id
    THEN CHOOSE i \in 1..Len(ns) : ns[i].id = id /\ \A j \in (i + 1)..Len(ns) : ns[j].id # id
    ELSE 0

RECURSIVE AdjOf(_, _, _, _)
\* adj[v]: the targets of the edges out of v, in edge order, from edge i on
AdjOf(ns, es, v, i) ==
    IF i > Len(es) THEN <<>>
    ELSE LET si == IdToIndex(ns, es[i].source)
             ti == IdToIndex(ns, es[i].target)
         IN  (IF si = v /\ ti # 0 /\ si # ti THEN <<ti>> ELSE <<>>)
             \o AdjOf(ns, es, v, i + 1)

Min(a, b) == IF a < b THEN a ELSE b
Max(a, b) == IF a > b THEN a ELSE b

RECURSIVE PopScc(_, _, _)
\* do { w = stack.pop(); onStack.delete(w); scc.push(w) } while (w !== v)
PopScc(t, v, scc) ==
    LET w == t.stack[Len(t.stack)]
        t1 == [t EXCEPT !.stack = SubSeq(@, 1, Len(@) - 1), !.onStack = @ \ {w}]
    IN  IF w = v THEN [t |-> t1, scc |-> Append(scc, w)]
        ELSE PopScc(t1, v, Append(scc, w))

\* mutant: every popped component is reported
ReportSccAny(scc) == Len(scc) > 0

\* the component popped at its root v is reported when it has several members
ReportScc(scc) == Len(scc) > 1

\* mutant: the lowlink is lowered for every visited neighbour, on the stack or not
VisitedNeighbourAnyIndex(t, v, w) == [t EXCEPT !.lowlink[v] = Min(@, t.index[w])]

\* else if (onStack.has(w)) lowlink.set(v, Math.min(lowlink.get(v), index.get(w)))
VisitedNeighbour(t, v, w) ==
    IF w \in t.onStack THEN [t EXCEPT !.lowlink[v] = Min(@, t.index[w])] ELSE t

RECURSIVE strongConnect(_, _, _, _)
RECURSIVE VisitAdj(_, _, _, _, _)

\* for (const w of adj[v]) { ... } from position i on
VisitAdj(t, ns, adj, v, i) ==
    IF i > Len(adj[v]) THEN t
    ELSE LET w == adj[v][i]
         IN  IF w \notin DOMAIN t.index
             THEN LET t1 == strongConnect(t, ns, adj, w)
                  IN  VisitAdj([t1 EXCEPT !.lowlink[v] = Min(@, t1.lowlink[w])],
                               ns, adj, v, i + 1)
             ELSE VisitAdj(VisitedNeighbour(t, v, w), ns, adj, v, i + 1)

\* strongConnect(v); depth counts the nested calls
strongConnect(t, ns, adj, v) ==
    LET t1 == [t EXCEPT !.index = MapSet(@, v, t.idx),
                        !.lowlink = MapSet(@, v, t.idx),
                        !.idx = @ + 1,
                        !.stack = Append(@, v),
                        !.onStack = @ \cup {v},
                        !.depth = @ + 1,
                        !.maxDepth = Max(@, t.depth + 1)]
        t2 == VisitAdj(t1, ns, adj, v, 1)
        t3 == IF t2.lowlink[v] = t2.index[v]
              THEN LET p == PopScc(t2, v, <<>>)
                   IN  IF ReportScc(p.scc)
                       THEN [p.t EXCEPT !.cycles =
                               Append(@, [ids |-> [i \in 1..Len(p.scc) |-> ns[p.scc[i]].id],
                                          pathLabels |->
                                              [i \in 1..Len(p.scc) |-> ns[p.scc[i]].path]])]
                       ELSE p.t
              ELSE t2
    IN  [t3 EXCEPT !.depth = @ - 1]

RECURSIVE TarjanFrom(_, _, _, _)
\* for (let i = 0; i < n; i++) if (!index.has(i)) strongConnect(i)
TarjanFrom(t, ns, adj, i) ==
    IF i > Len(ns) THEN t
    ELSE TarjanFrom(IF i \in DOMAIN t.index THEN t ELSE strongConnect(t, ns, adj, i),
                    ns, adj, i + 1)

\* the whole run of findCircularDependencies
TarjanRun(ns, es) ==
    TarjanFrom([index |-> EmptyMap, lowlink |-> EmptyMap, idx |-> 0, stack |-> <<>>,
                onStack |-> {}, cycles |-> <<>>, depth |-> 0, maxDepth |-> 0],
               ns, [v \in 1..Len(ns) |-> AdjOf(ns, es, v, 1)], 1)

\* findCircularDependencies(nodes, edges, idToNode)
findCircularDependencies(ns, es) == TarjanRun(ns, es).cycles

\* ------------------------------------------------------------------ post-processing

\* for (const cycle of circularDependencies) for (const id of cycle.ids) add
CycleNodeIds(cycles) ==
    UNION { {cycles[c].ids[i] : i \in 1..Len(cycles[c].ids)} : c \in 1..Len(cycles) }

Includes(seq, x) == \E i \in 1..Len(seq) : seq[i] = x

\* mutant: the penalty is added twice
CyclePenaltyTwice(rd) == rd.score + 30

\* the points the second pass adds for cycle membership
CyclePenalty(rd) == rd.score + 15

\* mutant: the score is raised but the level of the first pass is kept
RescoreNodeStaleLevel(node, cycleNodeIds) ==
    LET n1 == [node EXCEPT !.inCycle = node.id \in cycleNodeIds]
    IN  IF n1.inCycle /\ n1.scored
           /\ ~Includes(n1.riskDetail.factors, "In circular dependency")
        THEN [n1 EXCEPT !.riskDetail.score = CyclePenalty(n1.riskDetail),
                        !.riskDetail.factors = Append(@, "In circular dependency")]
        ELSE n1

\* the body of the loop "for (const node of nodes)" of step 4
RescoreNode(node, cycleNodeIds) ==
    LET n1 == [node EXCEPT !.inCycle = node.id \in cycleNodeIds]
    IN  IF n1.inCycle /\ n1.scored
           /\ ~Includes(n1.riskDetail.factors, "In circular dependency")
        THEN LET score == CyclePenalty(n1.riskDetail)
             IN  [n1 EXCEPT !.riskDetail =
                               [level |-> RiskLevelOf(score), score |-> score,
                                factors |-> Append(n1.riskDetail.factors,
                                                   "In circular dependency")],
                            !.riskLevel = RiskLevelOf(score)]
        ELSE n1

RECURSIVE InsertDesc(_, _, _)
\* x placed after every element of the sorted seq whose key is not smaller
InsertDesc(sorted, x, field) ==
    IF sorted = <<>> THEN <<x>>
    ELSE IF Head(sorted)[field] >= x[field]
         THEN <<Head(sorted)>> \o InsertDesc(Tail(sorted), x, field)
         ELSE <<x>> \o sorted

RECURSIVE SortDesc(_, _)
\* [...nodes].sort((a, b) => b[field] - a[field]), a stable sort
SortDesc(ns, field) ==
    IF ns = <<>> THEN <<>>
    ELSE InsertDesc(SortDesc(SubSeq(ns, 1, Len(ns) - 1), field), ns[Len(ns)], field)

RECURSIVE FilterPositive(_, _)
FilterPositive(ns, field) ==
    IF ns = <<>> THEN <<>>
    ELSE (IF Head(ns)[field] > 0 THEN <<Head(ns).id>> ELSE <<>>)
         \o FilterPositive(Tail(ns), field)

\* mutant: the ids of the first TOP_FAN_THRESHOLD nodes, whatever their count
TopIdsUnfiltered(sorted, field) ==
    [i \in 1..Min(TOP_FAN_THRESHOLD, Len(sorted)) |-> sorted[i].id]

\* sorted.slice(0, TOP_FAN_THRESHOLD).map(id).filter(count > 0)
TopIds(sorted, field) ==
    FilterPositive(SubSeq(sorted, 1, Min(TOP_FAN_THRESHOLD, Len(sorted))), field)

\* mutant: the floor of 2 is left out of both tests
ModuleRoleNoFloor(fi, fo, fanInThreshold, fanOutThreshold) ==
    IF 2 * fi >= fanInThreshold /\ fo <= 3 THEN "core"
    ELSE IF 2 * fo >= fanOutThreshold /\ fi <= 3 THEN "connector"
    ELSE IF fi <= 1 /\ fo <= 1 THEN "peripheral"
    ELSE "connector"

\* the branch of step 6 for fan-in fi and fan-out fo; x >= max(2, t * 0.5) is
\* 2x >= max(4, t)
ModuleRole(fi, fo, fanInThreshold, fanOutThreshold) ==
    IF 2 * fi >= Max(4, fanInThreshold) /\ fo <= 3 THEN "core"
    ELSE IF 2 * fo >= Max(4, fanOutThreshold) /\ fi <= 3 THEN "connector"
    ELSE IF fi <= 1 /\ fo <= 1 THEN "peripheral"
    ELSE "connector"

\* step 6: the thresholds from the sorted lists, then the role of every node
AssignRoles(ns, sortedByFanIn, sortedByFanOut) ==
    LET fanInThreshold == Max(1, IF ns = <<>> THEN 0 ELSE sortedByFanIn[1].fanIn)
        fanOutThreshold == Max(1, IF ns = <<>> THEN 0 ELSE sortedByFanOut[1].fanOut)
    IN  [i \in 1..Len(ns) |->
            [ns[i] EXCEPT !.moduleRole =
                ModuleRole(ns[i].fanIn, ns[i].fanOut, fanInThreshold, fanOutThreshold)]]

\* rootPkg?.engines?.node is truthy
HasEngines == rootPackageJson.kind = "object" /\ Truthy(rootPackageJson.enginesNode)

\* rootPkg.engines.node.replace is not a function: a TypeError outside any try
EnginesThrows == HasEngines /\ rootPackageJson.enginesNode.t # "str"

\* Math.round(total / n) for total >= 0, or 100
CodeQualityScore(total, n) == IF n > 0 THEN (2 * total + n) \div (2 * n) ELSE 100

\* steps 4 to 7 and the return, which run without suspending once the metrics
\* pass is over
FinishReturn ==
    /\ pc = "metrics"
    /\ inflight = {}
    /\ batchStart > Len(nodes)
    /\ ~EnginesThrows
    /\ \E cycles \in {findCircularDependencies(nodes, edges)} :
       LET cycleNodeIds == CycleNodeIds(cycles)
           rescored == [i \in 1..Len(nodes) |-> RescoreNode(nodes[i], cycleNodeIds)]
           sortedByFanIn == SortDesc(rescored, "fanIn")
           sortedByFanOut == SortDesc(rescored, "fanOut")
           final == AssignRoles(rescored, sortedByFanIn, sortedByFanOut)
           stats1 == [stats EXCEPT
                        !.frameworkVersions =
                            [i \in 1..Len(stats.frameworks) |->
                                [name |-> stats.frameworks[i],
                                 version |->
                                    IF stats.frameworks[i] \in DOMAIN frameworkVersionsMap
                                    THEN frameworkVersionsMap[stats.frameworks[i]]
                                    ELSE <<>>]],
                        !.languageVersions =
                            IF HasEngines
                            THEN MapSet(@, "node",
                                        StripRangeOps(rootPackageJson.enginesNode.s))
                            ELSE @]
       IN  /\ nodes' = final
           /\ stats' = stats1
           /\ result' = [kind |-> "graph", nodes |-> final, edges |-> edges,
                         stats |-> stats1, circularDependencies |-> cycles,
                         highFanInIds |-> TopIds(sortedByFanIn, "fanIn"),
                         highFanOutIds |-> TopIds(sortedByFanOut, "fanOut"),
                         codeQualityScore |->
                            CodeQualityScore(totalQualityScore, Len(nodes))]
    /\ contentCache' = EmptyMap
    /\ pc' = "done"
    /\ UNCHANGED logVars
    /\ UNCHANGED serverVars
    /\ UNCHANGED <<tree, scanStack, rootPackageJson, frameworkVersionsMap, fileMap,
                   graphVars, batchStart, inflight, totalQualityScore>>

\* step 7 throws on engines.node: analyzeRepoDependencies rejects; steps 4 to 6
\* have already written the nodes
FinishThrows ==
    /\ pc = "metrics"
    /\ inflight = {}
    /\ batchStart > Len(nodes)
    /\ EnginesThrows
    /\ \E cycleNodeIds \in {CycleNodeIds(findCircularDependencies(nodes, edges))} :
           nodes' = [i \in 1..Len(nodes) |-> RescoreNode(nodes[i], cycleNodeIds)]
    /\ pc' = "threw"
    /\ UNCHANGED logVars
    /\ UNCHANGED serverVars
    /\ UNCHANGED <<tree, scanStack, stats, rootPackageJson, frameworkVersionsMap,
                   fileMap, contentCache, graphVars, batchStart, inflight,
                   totalQualityScore, result>>

\* ------------------------------------------------------------------ specification

Next ==
    \/ BeginScan
    \/ BeginScanFails
    \/ ScanLoopEnd
    \/ ScanCapReturn
    \/ ScanSkipDir
    \/ ScanEnterDir
    \/ ScanDirFails
    \/ ScanFile
    \/ ResolveStartBatch
    \/ \E k \in 1..Len(nodes) : ResolveNode(k)
    \/ ResolveEnd
    \/ MetricsStartBatch
    \/ \E k \in 1..Len(nodes) : MetricsNode(k)
    \/ FinishReturn
    \/ FinishThrows

Spec == Init /\ [][Next]_vars

\* ------------------------------------------------------------------ findCircularDependencies alone

\* findCircularDependencies as a function of its arguments: a node list and
\* any list of distinct edges between its ids; the first node may also have an
\* edge to itself. The function reads the list only to build adj, which keeps
\* for each source the order of that source's edges, so the lists are drawn
\* grouped by source (in node order), in every order within a source.

D_TS == <<"d", ".ts">>

SccNodes == <<NewNode(PathJoin(rootPath, A_TS), A_TS), NewNode(PathJoin(rootPath, B_TS), B_TS),
              NewNode(PathJoin(rootPath, C_TS), C_TS), NewNode(PathJoin(rootPath, D_TS), D_TS)>>

SccIds == {SccNodes[i].id : i \in 1..Len(SccNodes)}

\* number of edges in the edge list
MaxEdges == 4

InitSCC ==
    /\ pc = "scc_input"
    /\ tree = Tree(EmptyMap, EmptyMap, {})
    /\ scanStack = <<>>
    /\ stats = EmptyStats
    /\ rootPackageJson = ManifestNull
    /\ frameworkVersionsMap = EmptyMap
    /\ nodes = SccNodes
    /\ fileMap = SccIds
    /\ contentCache = EmptyMap
    /\ edges = <<>>
    /\ addedEdges = {}
    /\ incomingEdgeCounts = EmptyMap
    /\ outgoingEdgeCounts = EmptyMap
    /\ batchStart = 1
    /\ inflight = {}
    /\ totalQualityScore = 0
    /\ result = NoResult
    /\ reads = EmptyMap
    /\ resolveCount = EmptyMap
    /\ metricsCount = EmptyMap
    /\ ServerIdle

\* one more edge in the list given to the function
SccAddEdge(s, t) ==
    /\ pc = "scc_input"
    /\ Len(edges) < MaxEdges
    /\ s # t \/ s = SccNodes[1].id
    /\ edges # <<>> =>
          IdToIndex(nodes, edges[Len(edges)].source) <= IdToIndex(nodes, s)
    /\ \A i \in 1..Len(edges) : ~(edges[i].source = s /\ edges[i].target = t)
    /\ edges' = Append(edges, [id |-> EdgeId(s, t), source |-> s, target |-> t,
                               imports |-> <<>>])
    /\ UNCHANGED logVars
    /\ UNCHANGED serverVars
    /\ UNCHANGED <<pc, tree, scanStack, scanVars, addedEdges, incomingEdgeCounts,
                   outgoingEdgeCounts, batchStart, inflight, totalQualityScore, result>>

\* the call findCircularDependencies(nodes, edges, idToNode)
SccRun ==
    /\ pc = "scc_input"
    /\ result' = [kind |-> "cycles",
                  circularDependencies |-> findCircularDependencies(nodes, edges)]
    /\ pc' = "scc_done"
    /\ UNCHANGED logVars
    /\ UNCHANGED serverVars
    /\ UNCHANGED <<tree, scanStack, scanVars, graphVars, batchStart, inflight,
                   totalQualityScore>>

NextSCC ==
    \/ \E s \in SccIds, t \in SccIds : SccAddEdge(s, t)
    \/ SccRun

SpecSCC == InitSCC /\ [][NextSCC]_vars

\* ------------------------------------------------------------------ properties

Returned == pc = "done"

ReturnedGraph == pc = "done" /\ result.kind = "graph"

\* the ids of the returned nodes
ResultIds == {result.nodes[i].id : i \in 1..Len(result.nodes)}

EdgeIndices == 1..Len(result.edges)

NodeIndices == 1..Len(result.nodes)

\* C1: in the returned graph every edge joins two distinct ids of returned
\* nodes, and no two edges have the same ordered (source, target) pair
C1_EdgesWellFormed ==
    Returned =>
        /\ \A i \in EdgeIndices :
              /\ result.edges[i].source \in ResultIds
              /\ result.edges[i].target \in ResultIds
              /\ result.edges[i].source # result.edges[i].target
        /\ \A i, j \in EdgeIndices :
              i # j => <<result.edges[i].source, result.edges[i].target>>
                       # <<result.edges[j].source, result.edges[j].target>>

\* the imports of the file id in the tree
ImportsOf(id) == ReadFile(id).imports

\* a graph is returned in which one file imported the same target by two
\* statements (merged into one edge of two specifiers) and some file imports
\* itself
C1_Witness ==
    /\ ReturnedGraph
    /\ \E i \in EdgeIndices : Len(result.edges[i].imports) = 2
    /\ \E n \in NodeIndices :
          \E k \in 1..Len(ImportsOf(result.nodes[n].id)) :
             TargetNodeId(fileMap, result.nodes[n].id,
                          ResolvedPath(result.nodes[n].id,
                                       ImportsOf(result.nodes[n].id)[k].importPath))
             = result.nodes[n].id

\* C2: every returned node's fanIn is the number of edges whose target it is
\* and its fanOut the number of edges whose source it is
C2_FanCountsMatchEdges ==
    Returned =>
        \A n \in NodeIndices :
            /\ result.nodes[n].fanIn =
                  Cardinality({i \in EdgeIndices : result.edges[i].target = result.nodes[n].id})
            /\ result.nodes[n].fanOut =
                  Cardinality({i \in EdgeIndices : result.edges[i].source = result.nodes[n].id})

\* a graph is returned with a merged edge (two statements, one pair) and a node
\* that two different files import
C2_Witness ==
    /\ ReturnedGraph
    /\ \E i \in EdgeIndices : Len(result.edges[i].imports) = 2
    /\ \E n \in NodeIndices : result.nodes[n].fanIn = 2

\* the ids listed in the reported cycles
ReportedIds == CycleNodeIds(result.circularDependencies)

\* C3: a returned node's inCycle is true exactly when its id is listed in a
\* reported circular dependency, and every reported one has at least 2 ids
C3_CycleFlagsConsistent ==
    Returned =>
        /\ \A n \in NodeIndices :
              result.nodes[n].inCycle <=> result.nodes[n].id \in ReportedIds
        /\ \A c \in 1..Len(result.circularDependencies) :
              Len(result.circularDependencies[c].ids) >= 2

\* a graph is returned with a reported cycle and a node outside every cycle
C3_Witness ==
    /\ ReturnedGraph
    /\ Len(result.circularDependencies) >= 1
    /\ \E n \in NodeIndices : ~result.nodes[n].inCycle
    /\ \E n \in NodeIndices : result.nodes[n].inCycle

\* the ids one edge away from the ids of S
Successors(S) == {edges[i].target : i \in {j \in 1..Len(edges) : edges[j].source \in S}}

RECURSIVE Closure(_)
\* the ids reachable from the ids of S along zero or more edges
Closure(S) == IF Successors(S) \subseteq S THEN S ELSE Closure(S \cup Successors(S))

\* v is reachable from u along one or more edges
Reaches(u, v) == v \in Closure(Successors({u}))

MutuallyReachable(u, v) == Reaches(u, v) /\ Reaches(v, u)

\* the ids of reported cycle c
Members(c) ==
    {result.circularDependencies[c].ids[i] :
        i \in 1..Len(result.circularDependencies[c].ids)}

CycleIndices == 1..Len(result.circularDependencies)

\* C4: findCircularDependencies reports exactly the strongly connected
\* components of two or more nodes: two distinct nodes share a reported cycle
\* exactly when each reaches the other, the reported cycles are pairwise
\* disjoint and list no id twice, and every reported node is mutually
\* reachable with another node
C4_ReportsExactlySccs ==
    pc = "scc_done" =>
        /\ \A u, v \in SccIds :
              u # v => ((\E c \in CycleIndices : u \in Members(c) /\ v \in Members(c))
                        <=> MutuallyReachable(u, v))
        /\ \A c, d \in CycleIndices : c # d => Members(c) \cap Members(d) = {}
        /\ \A c \in CycleIndices :
              Cardinality(Members(c)) = Len(result.circularDependencies[c].ids)
        /\ \A u \in ReportedIds : \E v \in SccIds : v # u /\ MutuallyReachable(u, v)

\* the function has run on a graph with two separate cycles
C4_Witness ==
    /\ pc = "scc_done"
    /\ Len(result.circularDependencies) = 2

\* C5: with a listable root, analyzeRepoDependencies never rejects, whatever
\* the files hold
C5_NeverRejects == Listable(rootPath) => pc # "threw"

\* C6: the graph returned after a failed directory listing has no nodes, no
\* edges and empty stats: totalFiles 0, no language count, framework or entry
\* point
C6_FailedScanStatsEmpty ==
    (pc = "done" /\ result.kind = "scanFailed") =>
        /\ result.nodes = <<>>
        /\ result.edges = <<>>
        /\ result.stats.totalFiles = 0
        /\ result.stats.languages = EmptyMap
        /\ result.stats.frameworks = <<>>
        /\ result.stats.entryPoints = <<>>

\* C7: every returned node's riskDetail.level is the level of its score under
\* the thresholds 50 and 25, and its riskLevel equals that level
C7_LevelMatchesScore ==
    Returned =>
        \A n \in NodeIndices :
            LET rd == result.nodes[n].riskDetail
            IN  /\ rd.score > 50 => rd.level = "high"
                /\ (rd.score > 25 /\ rd.score <= 50) => rd.level = "medium"
                /\ rd.score <= 25 => rd.level = "low"
                /\ result.nodes[n].riskLevel = rd.level

\* a graph is returned in which the cycle penalty moved one node from medium
\* to high and another from low to medium
C7_Witness ==
    /\ ReturnedGraph
    /\ \E n \in NodeIndices :
          result.nodes[n].inCycle /\ result.nodes[n].riskDetail.score = 65
    /\ \E n \in NodeIndices :
          result.nodes[n].inCycle /\ result.nodes[n].riskDetail.score = 30

\* the score of a node without the cycle factor: calculateRiskV2 on its text
\* and its fan counts
ScoreWithoutCycle(node) ==
    calculateRiskV2([node EXCEPT !.inCycle = FALSE], ReadFile(node.id).profile).score

\* how often the cycle factor is listed
CycleFactorCount(node) ==
    Cardinality({i \in 1..Len(node.riskDetail.factors) :
                    node.riskDetail.factors[i] = "In circular dependency"})

HasEdge(s, t) ==
    \E i \in EdgeIndices : result.edges[i].source = s /\ result.edges[i].target = t

\* C8: two files that import each other are both flagged and share exactly
\* one reported cycle; a node of a reported cycle has 15 added to its score
\* once and the cycle factor listed once; any other node has neither
C8_CyclePenaltyOnce ==
    Returned =>
        /\ \A a, b \in NodeIndices :
              (HasEdge(result.nodes[a].id, result.nodes[b].id)
               /\ HasEdge(result.nodes[b].id, result.nodes[a].id)) =>
                  /\ result.nodes[a].inCycle
                  /\ result.nodes[b].inCycle
                  /\ Cardinality({c \in CycleIndices :
                                    /\ result.nodes[a].id \in Members(c)
                                    /\ result.nodes[b].id \in Members(c)}) = 1
        /\ \A n \in NodeIndices :
              IF result.nodes[n].id \in ReportedIds
              THEN /\ result.nodes[n].riskDetail.score
                        = ScoreWithoutCycle(result.nodes[n]) + 15
                   /\ CycleFactorCount(result.nodes[n]) = 1
              ELSE /\ result.nodes[n].riskDetail.score = ScoreWithoutCycle(result.nodes[n])
                   /\ CycleFactorCount(result.nodes[n]) = 0

\* a graph is returned with two files importing each other and a file outside
\* every cycle
C8_Witness ==
    /\ ReturnedGraph
    /\ \E a, b \in NodeIndices :
          /\ HasEdge(result.nodes[a].id, result.nodes[b].id)
          /\ HasEdge(result.nodes[b].id, result.nodes[a].id)
    /\ \E n \in NodeIndices : ~result.nodes[n].inCycle

RECURSIVE QualitySum(_)
\* the sum over the nodes of max(0, 100 - final risk score)
QualitySum(ns) ==
    IF ns = <<>> THEN 0
    ELSE NodeQuality(Head(ns).riskDetail.score) + QualitySum(Tail(ns))

\* C9: codeQualityScore is the rounded mean over the returned nodes of
\* max(0, 100 - the node's final riskDetail.score), 100 without nodes, and
\* lies between 0 and 100
C9_QualityFromFinalScores ==
    ReturnedGraph =>
        /\ result.codeQualityScore =
              IF Len(result.nodes) = 0 THEN 100
              ELSE (2 * QualitySum(result.nodes) + Len(result.nodes))
                   \div (2 * Len(result.nodes))
        /\ result.codeQualityScore >= 0
        /\ result.codeQualityScore <= 100

\* C10: once totalFiles exceeds MAX_FILES no step of the scan counts a file
\* or creates a node, so totalFiles and the number of nodes, during the run
\* and in the result, never exceed MAX_FILES + 1
C10_CapStopsScan ==
    /\ [](/\ stats.totalFiles <= MAX_FILES + 1
          /\ Len(nodes) <= MAX_FILES + 1
          /\ Returned => (/\ result.stats.totalFiles <= MAX_FILES + 1
                          /\ Len(result.nodes) <= MAX_FILES + 1))
    /\ [][stats.totalFiles > MAX_FILES =>
            (stats'.totalFiles = stats.totalFiles /\ Len(nodes') = Len(nodes))]_vars

\* the cap is exceeded inside the innermost of three nested directories while
\* that directory and both enclosing ones still have entries left
C10_Witness ==
    /\ pc = "scan"
    /\ Len(scanStack) = 3
    /\ stats.totalFiles > MAX_FILES
    /\ \A f \in 1..Len(scanStack) :
          scanStack[f].i <= Len(tree.dirs[scanStack[f].path])

\* the node of the returned graph with this id
NodeOf(id) == result.nodes[IdToIndex(result.nodes, id)]

\* C11: in a project of two source files where a.ts imports b.ts by a relative
\* path and b.ts imports nothing, the result has exactly the edge a -> b,
\* fan-in 1 for b, fan-out 1 for a, no circular dependency, and b is core
C11_TwoFileProject ==
    LET a == PathJoin(rootPath, A_TS)
        b == PathJoin(rootPath, B_TS)
    IN  (/\ ReturnedGraph
         /\ tree.dirs[rootPath] = <<FileEntry(A_TS), FileEntry(B_TS)>>
         /\ ImportsOf(a) = <<Import(<<".", "/", "b">>, <<"x">>)>>
         /\ ImportsOf(b) = <<>>) =>
            /\ Len(result.edges) = 1
            /\ result.edges[1].source = a
            /\ result.edges[1].target = b
            /\ NodeOf(b).fanIn = 1
            /\ NodeOf(a).fanOut = 1
            /\ result.circularDependencies = <<>>
            /\ NodeOf(b).moduleRole = "core"

\* C12: within a run every path is read from storage at most once; what the
\* cache holds for a path is the text read, or the empty text when the read
\* failed, and it is not replaced while the run goes on
C12_ReadAtMostOnce ==
    /\ [](/\ \A p \in DOMAIN reads : reads[p] <= 1
          /\ \A p \in DOMAIN contentCache : contentCache[p] = ReadFile(p))
    /\ [][\A p \in (DOMAIN contentCache) \cap (DOMAIN contentCache') :
             contentCache'[p] = contentCache[p]]_vars

\* a file whose read failed has been asked for in the scan and in both passes,
\* and was read once
C12_Witness ==
    /\ ReturnedGraph
    /\ \E k \in NodeIndices :
          /\ result.nodes[k].id \notin DOMAIN tree.content
          /\ CountOf(reads, result.nodes[k].id) = 1
          /\ CountOf(resolveCount, k) = 1
          /\ CountOf(metricsCount, k) = 1

\* C13: the content cache is empty when the run starts to read files and
\* empty whenever analyzeRepoDependencies has completed, by a return or by an
\* exception
C13_CacheEmptyAfterRun ==
    /\ (pc = "scan" /\ reads = EmptyMap) => contentCache = EmptyMap
    /\ pc \in {"done", "threw"} => contentCache = EmptyMap

RECURSIVE SequentialResolve(_, _, _, _)
\* the resolve pass with the callbacks run one after the other in list order,
\* from node k on
SequentialResolve(g, fm, ns, k) ==
    IF k > Len(ns) THEN g
    ELSE SequentialResolve(ResolveImports(g, fm, ns[k].id, ReadFile(ns[k].id).imports, 1),
                           fm, ns, k + 1)

\* the edges as a set of <<source, target, set of specifiers>>
EdgeFacts(es) ==
    {<<es[i].source, es[i].target, {es[i].imports[j] : j \in 1..Len(es[i].imports)}>> :
        i \in 1..Len(es)}

C15_BatchesBounded ==
    /\ [](/\ Cardinality(inflight) <= IO_BATCH_SIZE
          /\ \A k \in inflight : k >= batchStart /\ k < batchStart + IO_BATCH_SIZE)
    /\ [][inflight' \ inflight # {} => inflight = {}]_vars

\* the second batch of the metrics pass is in flight after a full first batch
C15_Witness ==
    /\ pc = "metrics"
    /\ batchStart = 1 + IO_BATCH_SIZE
    /\ inflight # {}
    /\ \A k \in 1..IO_BATCH_SIZE : CountOf(metricsCount, k) = 1

\* C16: no callback runs twice for a node; the metrics pass runs only after
\* the resolve pass has processed every node; and when a graph is returned
\* each of its nodes was processed once by each pass
C16_EveryNodeOncePerPass ==
    /\ \A k \in DOMAIN resolveCount : resolveCount[k] <= 1
    /\ \A k \in DOMAIN metricsCount : metricsCount[k] <= 1
    /\ (pc = "metrics" \/ metricsCount # EmptyMap) =>
          \A k \in 1..Len(nodes) : CountOf(resolveCount, k) = 1
    /\ ReturnedGraph =>
          \A k \in NodeIndices :
              CountOf(resolveCount, k) = 1 /\ CountOf(metricsCount, k) = 1

\* a graph with more nodes than one batch holds is returned
C16_Witness ==
    /\ ReturnedGraph
    /\ Len(result.nodes) > IO_BATCH_SIZE
    /\ \A k \in NodeIndices : CountOf(resolveCount, k) = 1 /\ CountOf(metricsCount, k) = 1

RECURSIVE WithoutRangeOperators(_)
\* a version text without its leading range-operator characters
WithoutRangeOperators(s) ==
    IF Len(s) > 0 /\ s[1] \in {"^", "~", ">", "<", "="}
    THEN WithoutRangeOperators(Tail(s)) ELSE s

\* C17: every known framework that the scanned package.json declares with a
\* version string is in stats.frameworks, and its frameworkVersions entry is
\* that string without any leading range-operator character
C17_FrameworkVersionStripped ==
    LET p == PathJoin(rootPath, PackageJson)
        json == ReadFile(p).json
    IN  (ReturnedGraph /\ p \in DOMAIN reads /\ json.kind = "object") =>
            \A i \in 1..Len(FwMapping) :
                LET ver == DepLookup(json.deps, FwMapping[i][1])
                    name == FwMapping[i][2]
                IN  (ver.t = "str" /\ ver.s # <<>>) =>
                        /\ Includes(result.stats.frameworks, name)
                        /\ \E j \in 1..Len(result.stats.frameworkVersions) :
                              /\ result.stats.frameworkVersions[j].name = name
                              /\ result.stats.frameworkVersions[j].version
                                    = WithoutRangeOperators(ver.s)

\* the node id an import statement of the file a resolves to; <<>> for none
TargetOf(a, imp) ==
    LET resolvedPath == ResolvedPath(a, imp.importPath)
    IN  IF resolvedPath = <<>> THEN <<>> ELSE TargetNodeId(ResultIds, a, resolvedPath)

\* the positions of the import statements of a that resolve to t
StatementsTo(a, t) ==
    {i \in 1..Len(ImportsOf(a)) : TargetOf(a, ImportsOf(a)[i]) = t}

RoleNodeCount == 7

RoleNames == <<"a", "b", "c", "d", "e", "f", "g", "h", "i", "j">>

\* node k after the metrics pass, with the fan counts of the edges above
RoleNode(k, toFirst, toSecond, fromThird) ==
    [NewNode(PathJoin(rootPath, <<RoleNames[k], ".ts">>), <<RoleNames[k], ".ts">>) EXCEPT
        !.scored = TRUE,
        !.fanIn = IF k = 1 THEN Cardinality(toFirst)
                  ELSE IF k = 2 THEN Cardinality(toSecond)
                  ELSE IF k \in fromThird THEN 1 ELSE 0,
        !.fanOut = (IF k \in toFirst THEN 1 ELSE 0) + (IF k \in toSecond THEN 1 ELSE 0)
                   + (IF k = 3 THEN Cardinality(fromThird) ELSE 0)]

RoleNodeLists(count) ==
    { [k \in 1..count |-> RoleNode(k, toFirst, toSecond, fromThird)] :
        <<toFirst, toSecond, fromThird>> \in
            (SUBSET (3..count)) \X (SUBSET (3..count)) \X (SUBSET (4..count)) }

InitRoles ==
    /\ pc = "roles_input"
    /\ tree = Tree(EmptyMap, EmptyMap, {})
    /\ scanStack = <<>>
    /\ stats = EmptyStats
    /\ rootPackageJson = ManifestNull
    /\ frameworkVersionsMap = EmptyMap
    /\ nodes \in RoleNodeLists(RoleNodeCount)
    /\ fileMap = {}
    /\ contentCache = EmptyMap
    /\ edges = <<>>
    /\ addedEdges = {}
    /\ incomingEdgeCounts = EmptyMap
    /\ outgoingEdgeCounts = EmptyMap
    /\ batchStart = 1
    /\ inflight = {}
    /\ totalQualityScore = 0
    /\ result = NoResult
    /\ reads = EmptyMap
    /\ resolveCount = EmptyMap
    /\ metricsCount = EmptyMap
    /\ ServerIdle

\* steps 5 and 6 on the node list
RolesRun ==
    /\ pc = "roles_input"
    /\ nodes' = AssignRoles(nodes, SortDesc(nodes, "fanIn"), SortDesc(nodes, "fanOut"))
    /\ result' = [kind |-> "roles", nodes |-> nodes',
                  highFanInIds |-> TopIds(SortDesc(nodes, "fanIn"), "fanIn"),
                  highFanOutIds |-> TopIds(SortDesc(nodes, "fanOut"), "fanOut")]
    /\ pc' = "roles_done"
    /\ UNCHANGED logVars
    /\ UNCHANGED serverVars
    /\ UNCHANGED <<tree, scanStack, stats, rootPackageJson, frameworkVersionsMap, fileMap,
                   contentCache, graphVars, batchStart, inflight, totalQualityScore>>

NextRoles == RolesRun

SpecRoles == InitRoles /\ [][NextRoles]_vars

RECURSIVE Highest(_, _)
\* the largest value of a field over a node list, 0 for the empty list
Highest(ns, field) ==
    IF ns = <<>> THEN 0 ELSE Max(Head(ns)[field], Highest(Tail(ns), field))

\* C19: every node with a role has the role of the ordered rule, with the
\* thresholds max(1, highest fan-in) and max(1, highest fan-out); "x is at
\* least half of t" is written 2x >= t; a node with fan-in below 2 is not core
C19_ModuleRoleRule ==
    (ReturnedGraph \/ pc = "roles_done") =>
        LET fanInThreshold == Max(1, Highest(result.nodes, "fanIn"))
            fanOutThreshold == Max(1, Highest(result.nodes, "fanOut"))
        IN  \A n \in NodeIndices :
                LET fi == result.nodes[n].fanIn
                    fo == result.nodes[n].fanOut
                    role == result.nodes[n].moduleRole
                IN  /\ role \in {"core", "connector", "peripheral"}
                    /\ role = "core" <=>
                          (fi >= 2 /\ 2 * fi >= fanInThreshold /\ fo <= 3)
                    /\ role = "peripheral" <=>
                          /\ ~(fi >= 2 /\ 2 * fi >= fanInThreshold /\ fo <= 3)
                          /\ ~(fo >= 2 /\ 2 * fo >= fanOutThreshold /\ fi <= 3)
                          /\ fi <= 1 /\ fo <= 1
                    /\ fi < 2 => role # "core"

\* roles were assigned in a graph that has a core node, a node that is a
\* connector by its fan-out, a peripheral node, and a node that is a connector
\* only by the last branch (fan-in 2, less than half of the highest)
C19_Witness ==
    /\ pc = "roles_done"
    /\ \E n \in NodeIndices : result.nodes[n].moduleRole = "core"
    /\ \E n \in NodeIndices : result.nodes[n].moduleRole = "peripheral"
    /\ \E n \in NodeIndices :
          /\ result.nodes[n].moduleRole = "connector"
          /\ result.nodes[n].fanOut >= 2
    /\ \E n \in NodeIndices :
          /\ result.nodes[n].moduleRole = "connector"
          /\ result.nodes[n].fanIn = 2
          /\ result.nodes[n].fanOut = 0
          /\ Highest(result.nodes, "fanIn") = 5

\* the index strongConnect gave the node with this id: its discovery order
DiscoveryIndex(id) == TarjanRun(nodes, edges).index[IdToIndex(nodes, id)]

\* C20: the ids of every reported cycle are in increasing order of discovery,
\* and pathLabels are the members' relative paths in the same order
C20_CycleInDiscoveryOrder ==
    pc = "scc_done" =>
        \A c \in CycleIndices :
            LET cycle == result.circularDependencies[c]
            IN  /\ \A i, j \in 1..Len(cycle.ids) :
                      i < j => DiscoveryIndex(cycle.ids[i]) < DiscoveryIndex(cycle.ids[j])
                /\ Len(cycle.pathLabels) = Len(cycle.ids)
                /\ \A i \in 1..Len(cycle.ids) :
                      cycle.pathLabels[i] = nodes[IdToIndex(nodes, cycle.ids[i])].path

\* the deepest nesting of strongConnect calls reached in the run on this graph
CallDepth(ns, es) == TarjanRun(ns, es).maxDepth

\* C21: the depth of nested calls made by findCircularDependencies is a
\* constant: it is the same on the given graph as on the graph without edges,
\* however long the chains of dependency edges are
C21_CallDepthConstant ==
    pc = "scc_done" => CallDepth(nodes, edges) = CallDepth(nodes, <<>>)

\* ------------------------------------------------------------------ extractImports alone

\* extractImports(content, parser) for the Go parser, as a function of the
\* file's text. The text is a sequence of tokens: a word (\w+), a space, a
\* newline, a double quote or a parenthesis. The regular expressions of the
\* parser are matched token by token.

QUOTE == "\""
NL == "\n"

SpaceTokens == {" ", NL}
WordTokens == {"import", "fmt", "os", "f"}

\* lines of a Go file
GoSingle(p) == <<"import", " ", QUOTE, p, QUOTE>>
GoAliased(a, p) == <<"import", " ", a, " ", QUOTE, p, QUOTE>>
GoOpen == <<"import", " ", "(">>
GoEntry(p) == <<QUOTE, p, QUOTE>>
GoAliasedEntry(a, p) == <<a, " ", QUOTE, p, QUOTE>>
GoClose == <<")">>

GoLines == {GoSingle("fmt"), GoAliased("f", "os"), GoOpen, GoEntry("fmt"),
            GoAliasedEntry("f", "os"), <<>>, GoClose}

\* number of lines of the file
MaxGoLines == 4

MAIN_GO == <<"main", ".go">>

RECURSIVE GoText(_)
\* the text of the file: every line followed by a newline
GoText(lines) ==
    IF lines = <<>> THEN <<>> ELSE Head(lines) \o <<NL>> \o GoText(Tail(lines))

RECURSIVE RunEnd(_, _, _)
\* the position after the longest run of tokens of class S that starts at i
RunEnd(text, i, S) ==
    IF i <= Len(text) /\ text[i] \in S THEN RunEnd(text, i + 1, S) ELSE i

RECURSIVE FirstAt(_, _, _)
\* the first position from i on that holds token c, Len(text) + 1 when none
FirstAt(text, i, c) ==
    IF i > Len(text) \/ text[i] = c THEN i ELSE FirstAt(text, i + 1, c)

NoMatch == [ok |-> FALSE, end |-> 0, m1 |-> <<>>]
Match(end, m1) == [ok |-> TRUE, end |-> end, m1 |-> m1]

NotQuote(text) == {text[k] : k \in 1..Len(text)} \ {QUOTE}

\* /import\s+"([^"]+)"/ matched at position i
MatchSingleAt(text, i) ==
    IF i > Len(text) \/ text[i] # "import" THEN NoMatch
    ELSE LET j == RunEnd(text, i + 1, SpaceTokens)
             k == RunEnd(text, j + 1, NotQuote(text))
         IN  IF j > i + 1 /\ j <= Len(text) /\ text[j] = QUOTE /\ k > j + 1 /\ k <= Len(text)
             THEN Match(k + 1, SubSeq(text, j + 1, k - 1))
             ELSE NoMatch

\* /import\s+\w+\s+"([^"]+)"/ matched at position i
MatchAliasedAt(text, i) ==
    IF i > Len(text) \/ text[i] # "import" THEN NoMatch
    ELSE LET j == RunEnd(text, i + 1, SpaceTokens)
             w == RunEnd(text, j, WordTokens)
             l == RunEnd(text, w, SpaceTokens)
             k == RunEnd(text, l + 1, NotQuote(text))
         IN  IF /\ j > i + 1 /\ w > j /\ l > w
                /\ l <= Len(text) /\ text[l] = QUOTE /\ k > l + 1 /\ k <= Len(text)
             THEN Match(k + 1, SubSeq(text, l + 1, k - 1))
             ELSE NoMatch

\* /import\s+\(([\s\S]*?)\)/ matched at position i
MatchBlockAt(text, i) ==
    IF i > Len(text) \/ text[i] # "import" THEN NoMatch
    ELSE LET j == RunEnd(text, i + 1, SpaceTokens)
             k == FirstAt(text, j + 1, ")")
         IN  IF j > i + 1 /\ j <= Len(text) /\ text[j] = "(" /\ k <= Len(text)
             THEN Match(k + 1, SubSeq(text, j + 1, k - 1))
             ELSE NoMatch

\* importPatterns of the Go parser, in order
GoImportPatterns == <<"single", "aliased", "block">>

MatchAt(pattern, text, i) ==
    CASE pattern = "single" -> MatchSingleAt(text, i)
      [] pattern = "aliased" -> MatchAliasedAt(text, i)
      [] pattern = "block" -> MatchBlockAt(text, i)

RECURSIVE RegexExec(_, _, _)
\* regex.exec(content) with lastIndex = from: the leftmost match from there on
RegexExec(pattern, text, from) ==
    IF from > Len(text) THEN NoMatch
    ELSE IF MatchAt(pattern, text, from).ok THEN MatchAt(pattern, text, from)
    ELSE RegexExec(pattern, text, from + 1)

\* extractImportPath of the Go parser; <<>> stands for null and for ""
GoExtractImportPath(m) ==
    IF m.m1 # <<>> /\ ~Includes(m.m1, NL) THEN m.m1 ELSE <<>>

RECURSIVE SplitOn(_, _, _)
\* s.split(c)
SplitOn(s, c, cur) ==
    IF s = <<>> THEN <<cur>>
    ELSE IF Head(s) = c THEN <<cur>> \o SplitOn(Tail(s), c, <<>>)
    ELSE SplitOn(Tail(s), c, Append(cur, Head(s)))

\* s.trim()
Trim(s) ==
    LET kept == {i \in 1..Len(s) : s[i] \notin SpaceTokens}
    IN  IF kept = {} THEN <<>>
        ELSE SubSeq(s, CHOOSE i \in kept : \A j \in kept : i <= j,
                       CHOOSE i \in kept : \A j \in kept : i >= j)

\* s.replace(/^[\w.]+\s+/, "")
StripAliasPrefix(s) ==
    LET w == RunEnd(s, 1, WordTokens \cup {"."})
        l == RunEnd(s, w, SpaceTokens)
    IN  IF w > 1 /\ l > w THEN SubSeq(s, l, Len(s)) ELSE s

\* s.replace(/"/g, "")
StripQuotes(s) == SelectSeq(s, LAMBDA t : t # QUOTE)

\* line.trim().replace(/^[\w.]+\s+/, "").replace(/"/g, "").trim()
CleanedLine(line) == Trim(StripQuotes(StripAliasPrefix(Trim(line))))

RECURSIVE BlockRecords(_)
\* for (const line of lines) { ... if (cleaned) results.push(...) }
BlockRecords(lines) ==
    IF lines = <<>> THEN <<>>
    ELSE (IF CleanedLine(Head(lines)) # <<>>
          THEN <<Import(CleanedLine(Head(lines)), <<>>)>> ELSE <<>>)
         \o BlockRecords(Tail(lines))

RECURSIVE PatternRecords(_, _, _)
\* while ((match = regex.exec(content)) !== null) { ... } for one pattern
PatternRecords(pattern, text, from) ==
    LET m == RegexExec(pattern, text, from)
        importPath == GoExtractImportPath(m)
    IN  IF ~m.ok THEN <<>>
        ELSE (IF importPath = <<>> THEN <<>>
              ELSE IF Includes(importPath, NL) THEN BlockRecords(SplitOn(importPath, NL, <<>>))
              ELSE <<Import(importPath, <<>>)>>)
             \o PatternRecords(pattern, text, m.end)

RECURSIVE extractImportsFrom(_, _)
\* for (const pattern of parser.importPatterns) { ... } from pattern i on
extractImportsFrom(text, i) ==
    IF i > Len(GoImportPatterns) THEN <<>>
    ELSE PatternRecords(GoImportPatterns[i], text, 1) \o extractImportsFrom(text, i + 1)

\* extractImports(content, parser) with the Go parser
extractImports(text) == extractImportsFrom(text, 1)

MainGoPath == PathJoin(rootPath, MAIN_GO)

\* the lines of main.go
MainGoLines == tree.content[MainGoPath]

InitImports ==
    /\ pc = "imports_input"
    /\ tree = Tree(rootPath :> <<FileEntry(MAIN_GO)>>, MainGoPath :> <<>>, {})
    /\ scanStack = <<>>
    /\ stats = EmptyStats
    /\ rootPackageJson = ManifestNull
    /\ frameworkVersionsMap = EmptyMap
    /\ nodes = <<>>
    /\ fileMap = {}
    /\ contentCache = EmptyMap
    /\ edges = <<>>
    /\ addedEdges = {}
    /\ incomingEdgeCounts = EmptyMap
    /\ outgoingEdgeCounts = EmptyMap
    /\ batchStart = 1
    /\ inflight = {}
    /\ totalQualityScore = 0
    /\ result = NoResult
    /\ reads = EmptyMap
    /\ resolveCount = EmptyMap
    /\ metricsCount = EmptyMap
    /\ ServerIdle

\* one more line in the file given to the function
ImportsAddLine(line) ==
    /\ pc = "imports_input"
    /\ Len(MainGoLines) < MaxGoLines
    /\ tree' = [tree EXCEPT !.content[MainGoPath] = Append(@, line)]
    /\ UNCHANGED logVars
    /\ UNCHANGED serverVars
    /\ UNCHANGED <<pc, scanStack, scanVars, graphVars, batchStart, inflight,
                   totalQualityScore, result>>

\* the call extractImports(content, parser)
ImportsRun ==
    /\ pc = "imports_input"
    /\ result' = [kind |-> "imports", imports |-> extractImports(GoText(MainGoLines))]
    /\ pc' = "imports_done"
    /\ UNCHANGED logVars
    /\ UNCHANGED serverVars
    /\ UNCHANGED <<tree, scanStack, scanVars, graphVars, batchStart, inflight,
                   totalQualityScore>>

NextImports ==
    \/ \E line \in GoLines : ImportsAddLine(line)
    \/ ImportsRun

SpecImports == InitImports /\ [][NextImports]_vars

\* the file is one parenthesized import list: an opening line, entry lines
\* (plain, aliased or empty) and a closing line
IsBlockFile(lines) ==
    /\ Len(lines) >= 3
    /\ lines[1] = GoOpen
    /\ lines[Len(lines)] = GoClose
    /\ \A i \in 2..(Len(lines) - 1) :
          lines[i] \in {GoEntry("fmt"), GoAliasedEntry("f", "os"), <<>>}
    /\ \E i \in 2..(Len(lines) - 1) : lines[i] # <<>>

\* the import target an entry line names
EntryTarget(line) == <<line[Len(line) - 1]>>

RECURSIVE EntryRecords(_)
\* one record per non-empty entry line, in order, without specifiers
EntryRecords(lines) ==
    IF lines = <<>> THEN <<>>
    ELSE (IF Head(lines) # <<>> THEN <<Import(EntryTarget(Head(lines)), <<>>)>> ELSE <<>>)
         \o EntryRecords(Tail(lines))

\* C22: for a file that is one parenthesized import list with n non-empty
\* entries on separate lines, extractImports returns n records, one per
\* entry, with quotes and alias removed and no specifiers
C22_GoBlockOneRecordPerEntry ==
    (pc = "imports_done" /\ IsBlockFile(MainGoLines)) =>
        result.imports = EntryRecords(SubSeq(MainGoLines, 2, Len(MainGoLines) - 1))

\* the files of the languages whose imports are resolved inside the project
\* by the generic branches
LocallyResolved(id) == ExtToParser(PathExtname(id)) \in {"python", "ruby"}

\* C23: an import that starts with "/" in a file of such a language is
\* resolved from the repository root: when the root joined with the import
\* path names another node (exactly or by the suffixes probed), the result
\* has the edge to that node
C23_SlashImportFromRoot ==
    ReturnedGraph =>
        \A a \in ResultIds : \A i \in 1..Len(ImportsOf(a)) :
            LET importPath == ImportsOf(a)[i].importPath
                t == TargetNodeId(ResultIds, a, PathJoin(rootPath, importPath))
            IN  (LocallyResolved(a) /\ StartsWithSlash(importPath) /\ t # <<>> /\ t # a)
                    => HasEdge(a, t)

\* the candidate path of a dotted import of the Python file a: under the
\* file's directory for a relative form, under the repository root otherwise
PackageCandidate(a, importPath) ==
    IF StartsWithDot(importPath)
    THEN PathJoin(PathDirname(a), DottedAsPath(DropLeadingDots(importPath)))
    ELSE PathJoin(rootPath, DottedAsPath(importPath))

\* C24: when the candidate path of a dotted import of a Python file names
\* another node (exactly or by the suffixes probed), the result has the edge
\* to that node, for the relative and for the absolute form
C24_PythonDottedImport ==
    ReturnedGraph =>
        \A a \in ResultIds : \A i \in 1..Len(ImportsOf(a)) :
            LET importPath == ImportsOf(a)[i].importPath
                t == TargetNodeId(ResultIds, a, PackageCandidate(a, importPath))
            IN  (ExtToParser(PathExtname(a)) = "python" /\ ~StartsWithSlash(importPath)
                 /\ t # <<>> /\ t # a) => HasEdge(a, t)

\* the extensions of the language of the file a, in registry order
LanguageExts(a) == ParserExtensions(ExtToParser(PathExtname(a)))

\* the k-th suffix probed for an import of the file a: the n extensions, then
\* "/index" followed by each of them
Suffix(a, k) ==
    IF k <= Len(LanguageExts(a)) THEN <<LanguageExts(a)[k]>>
    ELSE <<SEP, "index", LanguageExts(a)[k - Len(LanguageExts(a))]>>

\* the positions of the suffixes that make the candidate p a node
Hits(a, p) == {k \in 1..(2 * Len(LanguageExts(a))) : (p \o Suffix(a, k)) \in ResultIds}

\* the target the rule gives for the candidate p; <<>> for none
ExpectedTarget(a, p) ==
    IF p \in ResultIds THEN p
    ELSE IF Hits(a, p) = {} THEN <<>>
    ELSE p \o Suffix(a, CHOOSE k \in Hits(a, p) : \A j \in Hits(a, p) : k <= j)

\* the candidate paths of the import statements of the file a
Candidates(a) ==
    {ResolvedPath(a, ImportsOf(a)[i].importPath) : i \in 1..Len(ImportsOf(a))} \ {<<>>}

\* C25: the edges out of a file go exactly to the targets the rule gives for
\* its candidate paths: the node at the candidate itself when there is one,
\* else the node at the candidate plus the first suffix that names a node,
\* and to nothing when there is none
C25_TargetBySuffixOrder ==
    ReturnedGraph =>
        \A a \in ResultIds :
            {result.edges[e].target : e \in {i \in EdgeIndices : result.edges[i].source = a}}
            = {ExpectedTarget(a, p) : p \in Candidates(a)} \ {<<>>, a}

\* a graph is returned in which a candidate is not a node, two suffixes name
\* a node, and the edge goes to the node of the first of them
C25_Witness ==
    /\ ReturnedGraph
    /\ \E a \in ResultIds : \E p \in Candidates(a) :
          /\ p \notin ResultIds
          /\ Cardinality(Hits(a, p)) = 2
          /\ HasEdge(a, ExpectedTarget(a, p))
          /\ \E k \in Hits(a, p) : ~HasEdge(a, p \o Suffix(a, k))

\* the count (fan-in or fan-out) of the node with this id in the result
FanOf(id, field) == NodeOf(id)[field]

\* the nodes of the result with a positive count
PositiveIds(field) == {id \in ResultIds : FanOf(id, field) > 0}

\* the requirements on one of the two lists
TopFanListed(ids, field) ==
    /\ Len(ids) <= 5
    /\ \A i \in 1..Len(ids) : ids[i] \in PositiveIds(field)
    /\ \A i, j \in 1..Len(ids) : i < j => FanOf(ids[i], field) >= FanOf(ids[j], field)
    /\ \A i, j \in 1..Len(ids) : i # j => ids[i] # ids[j]
    /\ \A id \in ResultIds : \A i \in 1..Len(ids) :
          Includes(ids, id) \/ FanOf(id, field) <= FanOf(ids[i], field)
    /\ Cardinality(PositiveIds(field)) < 5 =>
          {ids[i] : i \in 1..Len(ids)} = PositiveIds(field)

\* C26: highFanInIds and highFanOutIds each have at most 5 ids, all of nodes
\* with a positive count, in descending order of the count; no node left out
\* has a greater count than a listed one; fewer than 5 positive nodes are all
\* listed
C26_TopFanLists ==
    result.kind \in {"roles", "graph"} =>
        /\ TopFanListed(result.highFanInIds, "fanIn")
        /\ TopFanListed(result.highFanOutIds, "fanOut")

\* the lists were computed where six nodes have a positive fan-in, five are
\* listed, and fewer than five have a positive fan-out
C26_Witness ==
    /\ pc = "roles_done"
    /\ Cardinality(PositiveIds("fanIn")) = 6
    /\ Len(result.highFanInIds) = 5
    /\ Cardinality(PositiveIds("fanOut")) \in 1..4
    /\ Len(result.highFanOutIds) = Cardinality(PositiveIds("fanOut"))

\* ------------------------------------------------------------------ overlapping runs

\* Two calls of analyzeRepoDependencies for the same repository run in one
\* process. contentCache is a constant of the module, so both calls use the
\* one map. A call is reduced to what it does with the cache: the clear at its
\* start, the calls of getCachedContent of its three passes (scan, resolve,
\* metrics) in order, and the clear before it returns. getCachedContent
\* suspends at "await fs.readFile": the lookup and the store are two steps.

RunIds == {1, 2}

\* number of source files of the repository
OverlapFileCount == 2

OverlapFiles == SubSeq(<<A_TS, B_TS, C_TS, D_TS>>, 1, OverlapFileCount)

OverlapPaths == [i \in 1..OverlapFileCount |-> PathJoin(rootPath, OverlapFiles[i])]

\* the paths one run passes to getCachedContent, in order: every file in the
\* scan, again in the resolve pass and again in the metrics pass
GetSequence == OverlapPaths \o OverlapPaths \o OverlapPaths

NewRun == [pc |-> "idle", i |-> 1, pending |-> FALSE, reads |-> EmptyMap, cached |-> {}]

InitOverlap ==
    /\ pc = "overlap"
    /\ tree = Tree(rootPath :> [i \in 1..OverlapFileCount |-> FileEntry(OverlapFiles[i])],
                   [f \in {OverlapPaths[i] : i \in 1..OverlapFileCount} |->
                       Content(<<>>, DefaultProfile, ManifestInvalid)],
                   {})
    /\ scanStack = <<>>
    /\ stats = EmptyStats
    /\ rootPackageJson = ManifestNull
    /\ frameworkVersionsMap = EmptyMap
    /\ nodes = <<>>
    /\ fileMap = {}
    /\ contentCache = EmptyMap
    /\ edges = <<>>
    /\ addedEdges = {}
    /\ incomingEdgeCounts = EmptyMap
    /\ outgoingEdgeCounts = EmptyMap
    /\ batchStart = 1
    /\ inflight = {}
    /\ totalQualityScore = 0
    /\ result = NoResult
    /\ reads = EmptyMap
    /\ resolveCount = EmptyMap
    /\ metricsCount = EmptyMap
    /\ runs = [r \in RunIds |-> NewRun]
    /\ RepoIdle

overlapFixed == <<pc, tree, scanStack, stats, rootPackageJson, frameworkVersionsMap, nodes,
                  fileMap, graphVars, batchStart, inflight, totalQualityScore, result,
                  reads, resolveCount, metricsCount, repoVars>>

\* the call begins: contentCache.clear()
RunStart(r) ==
    /\ runs[r].pc = "idle"
    /\ contentCache' = EmptyMap
    /\ runs' = [runs EXCEPT ![r].pc = "running"]
    /\ UNCHANGED overlapFixed

\* getCachedContent(path) up to its return or its await: a cached path is
\* returned at once, for any other path fs.readFile is started
RunGet(r) ==
    /\ runs[r].pc = "running"
    /\ ~runs[r].pending
    /\ runs[r].i <= Len(GetSequence)
    /\ IF GetSequence[runs[r].i] \in DOMAIN contentCache
       THEN runs' = [runs EXCEPT ![r].i = @ + 1]
       ELSE runs' = [runs EXCEPT ![r].pending = TRUE,
                                 ![r].reads = MapSet(@, GetSequence[runs[r].i],
                                                     CountOf(@, GetSequence[runs[r].i]) + 1)]
    /\ UNCHANGED contentCache
    /\ UNCHANGED overlapFixed

\* fs.readFile settles: contentCache.set(path, content) and the call returns
RunReadDone(r) ==
    /\ runs[r].pc = "running"
    /\ runs[r].pending
    /\ contentCache' = MapSet(contentCache, GetSequence[runs[r].i],
                              ReadFile(GetSequence[runs[r].i]))
    /\ runs' = [runs EXCEPT ![r].pending = FALSE, ![r].i = @ + 1,
                            ![r].cached = @ \cup {GetSequence[runs[r].i]}]
    /\ UNCHANGED overlapFixed

\* the passes are over: contentCache.clear() and the call returns
RunReturn(r) ==
    /\ runs[r].pc = "running"
    /\ ~runs[r].pending
    /\ runs[r].i > Len(GetSequence)
    /\ contentCache' = EmptyMap
    /\ runs' = [runs EXCEPT ![r].pc = "done"]
    /\ UNCHANGED overlapFixed

NextOverlap ==
    \E r \in RunIds : RunStart(r) \/ RunGet(r) \/ RunReadDone(r) \/ RunReturn(r)

SpecOverlap == InitOverlap /\ [][NextOverlap]_vars

\* C27: while a run is in progress every path it has cached is still in the
\* cache, and no run reads a path from storage a second time
C27_RunsKeepTheirCache ==
    \A r \in RunIds :
        /\ runs[r].pc = "running" => runs[r].cached \subseteq DOMAIN contentCache
        /\ \A f \in DOMAIN runs[r].reads : runs[r].reads[f] <= 1

\* ------------------------------------------------------------------ paths with "-"

\* analyzeRepoDependencies on a repository whose directory names end in "-"
\* and repeat the root path below them:
\*     /r/a.ts     /r/a.ts-/r/q.ts     /r/q.ts-/r/a.ts
\* a.ts imports the third file and the second file imports a.ts, each with one
\* statement or none. The scan trees are kept so that every step of the
\* function occurs.

Q_TS == <<"q", ".ts">>
DirADash == PathJoin(rootPath, <<"a", ".ts", "-">>)
DirQDash == PathJoin(rootPath, <<"q", ".ts", "-">>)

DashA == PathJoin(rootPath, A_TS)
DashY == PathJoin(PathJoin(DirADash, <<"r">>), Q_TS)
DashX == PathJoin(PathJoin(DirQDash, <<"r">>), A_TS)

DashTrees ==
    { Tree( (rootPath :> <<FileEntry(A_TS), DirEntry(<<"a", ".ts", "-">>),
                           DirEntry(<<"q", ".ts", "-">>)>>)
            @@ (DirADash :> <<DirEntry(<<"r">>)>>)
            @@ (PathJoin(DirADash, <<"r">>) :> <<FileEntry(Q_TS)>>)
            @@ (DirQDash :> <<DirEntry(<<"r">>)>>)
            @@ (PathJoin(DirQDash, <<"r">>) :> <<FileEntry(A_TS)>>),
            (DashA :> Content(ia, DefaultProfile, ManifestInvalid))
            @@ (DashY :> Content(iy, DefaultProfile, ManifestInvalid))
            @@ (DashX :> Content(<<>>, DefaultProfile, ManifestInvalid)),
            {} ) :
      <<ia, iy>> \in
          {<<>>, <<Import(<<".", SEP, "q", ".ts", "-", SEP, "r", SEP, "a", ".ts">>, <<"x">>)>>}
          \X {<<>>, <<Import(<<"@", SEP, "a", ".ts">>, <<"y">>)>>} }

InitDash ==
    /\ pc = "start"
    /\ tree \in DashTrees \cup ScanTrees
    /\ scanStack = <<>>
    /\ stats = EmptyStats
    /\ rootPackageJson = ManifestNull
    /\ frameworkVersionsMap = EmptyMap
    /\ nodes = <<>>
    /\ fileMap = {}
    /\ contentCache = EmptyMap
    /\ edges = <<>>
    /\ addedEdges = {}
    /\ incomingEdgeCounts = EmptyMap
    /\ outgoingEdgeCounts = EmptyMap
    /\ batchStart = 1
    /\ inflight = {}
    /\ totalQualityScore = 0
    /\ result = NoResult
    /\ reads = EmptyMap
    /\ resolveCount = EmptyMap
    /\ metricsCount = EmptyMap
    /\ ServerIdle

SpecDash == InitDash /\ [][Next]_vars

\* C28: two different pairs of nodes never have the same edge id; every
\* statement that resolves to another node t of its file s has its edge (s,t)
\* in the result, and the imports of an edge come from the statements of its
\* own pair only
C28_EdgeIdIdentifiesPair ==
    ReturnedGraph =>
        /\ \A s1 \in ResultIds, t1 \in ResultIds, s2 \in ResultIds, t2 \in ResultIds :
              EdgeId(s1, t1) = EdgeId(s2, t2) => (s1 = s2 /\ t1 = t2)
        /\ \A s \in ResultIds : \A t \in ResultIds \ {s} :
              StatementsTo(s, t) # {} => HasEdge(s, t)
        /\ \A e \in EdgeIndices :
              \A j \in 1..Len(result.edges[e].imports) :
                  \E i \in StatementsTo(result.edges[e].source, result.edges[e].target) :
                      Includes(ImportsOf(result.edges[e].source)[i].specifiers,
                               result.edges[e].imports[j])

\* ------------------------------------------------------------------ server actions

\* analyzeRepo and cloneRepository (src/lib/actions.ts) for one repository id,
\* called concurrently in one process. Every "await" ends a step. The local
\* directory of the repository is absent, partial (created but not completely
\* extracted) or complete. analyzeRepoDependencies is reduced to its outcome:
\* the empty graph of a failed scan when the directory is absent, else the
\* graph of what the directory holds, or a rejection.

CallIds == {1, 2}

\* `${owner}@${repo}`
REPO_ID == <<"o", "@", "r">>

\* CACHE_TTL, in clock ticks
CACHE_TTL == 2

\* the clock stops here
MaxTime == 3

\* repoId.includes("@") with a non-empty owner and a non-empty repo
Restorable(repoId) ==
    /\ Includes(repoId, "@")
    /\ Head(SplitOn(repoId, "@", <<>>)) # <<>>
    /\ Len(repoId) > Len(Head(SplitOn(repoId, "@", <<>>))) + 1

\* mutant: an entry of age CACHE_TTL is still used
IsFreshInclusive(cache, repoId, t) ==
    repoId \in DOMAIN cache /\ t - cache[repoId].timestamp <= CACHE_TTL

\* cached && Date.now() - cached.timestamp < CACHE_TTL
IsFresh(cache, repoId, t) ==
    repoId \in DOMAIN cache /\ t - cache[repoId].timestamp < CACHE_TTL

NewCall == [op |-> "none", pc |-> "idle", ensured |-> "none", graph |-> "none",
            success |-> FALSE, data |-> "none"]

InitServer ==
    /\ pc = "server"
    /\ tree = Tree(EmptyMap, EmptyMap, {})
    /\ scanStack = <<>>
    /\ stats = EmptyStats
    /\ rootPackageJson = ManifestNull
    /\ frameworkVersionsMap = EmptyMap
    /\ nodes = <<>>
    /\ fileMap = {}
    /\ contentCache = EmptyMap
    /\ edges = <<>>
    /\ addedEdges = {}
    /\ incomingEdgeCounts = EmptyMap
    /\ outgoingEdgeCounts = EmptyMap
    /\ batchStart = 1
    /\ inflight = {}
    /\ totalQualityScore = 0
    /\ result = NoResult
    /\ reads = EmptyMap
    /\ resolveCount = EmptyMap
    /\ metricsCount = EmptyMap
    /\ runs = EmptyMap
    /\ repoDir \in {"absent", "complete"}
    /\ analysisCache = EmptyMap
    /\ now = 0
    /\ calls = [c \in CallIds |-> NewCall]

serverFixed == <<pc, tree, scanStack, scanVars, graphVars, batchStart, inflight,
                 totalQualityScore, result, logVars, runs>>

\* a client calls analyzeRepo(repoId) or cloneRepository(url)
CallStart(c, op) ==
    /\ calls[c].pc = "idle"
    /\ calls' = [calls EXCEPT ![c] = [NewCall EXCEPT !.op = op,
                                        !.pc = IF op = "analyzeRepo" THEN "check"
                                               ELSE "e_access"]]
    /\ UNCHANGED <<repoDir, analysisCache, now>>
    /\ UNCHANGED serverFixed

\* analyzeRepo: the cache test
AnalyzeCheck(c) ==
    /\ calls[c].pc = "check"
    /\ calls' = IF IsFresh(analysisCache, REPO_ID, now)
                THEN [calls EXCEPT ![c].pc = "returned", ![c].success = TRUE,
                                   ![c].data = analysisCache[REPO_ID].data]
                ELSE [calls EXCEPT ![c].pc = "access"]
    /\ UNCHANGED <<repoDir, analysisCache, now>>
    /\ UNCHANGED serverFixed

\* analyzeRepo: await fs.access(repoPath); a missing directory is restored by
\* ensureRepo when the id has the form owner@repo
AnalyzeAccess(c) ==
    /\ calls[c].pc = "access"
    /\ calls' = [calls EXCEPT ![c].pc = IF repoDir = "absent" /\ Restorable(REPO_ID)
                                        THEN "e_access" ELSE "analysis"]
    /\ UNCHANGED <<repoDir, analysisCache, now>>
    /\ UNCHANGED serverFixed

\* ensureRepo has returned: cloneRepository returns its outcome, analyzeRepo
\* ignores it and goes on
AfterEnsure(call, outcome) ==
    IF call.op = "cloneRepository"
    THEN [call EXCEPT !.pc = "returned", !.ensured = outcome,
                      !.success = (outcome = "success")]
    ELSE [call EXCEPT !.pc = "analysis", !.ensured = outcome]

\* ensureRepo: await fs.access(localPath); an existing directory is a success
EnsureAccess(c) ==
    /\ calls[c].pc = "e_access"
    /\ calls' = IF repoDir # "absent"
                THEN [calls EXCEPT ![c] = AfterEnsure(@, "success")]
                ELSE [calls EXCEPT ![c].pc = "e_rm"]
    /\ UNCHANGED <<repoDir, analysisCache, now>>
    /\ UNCHANGED serverFixed

\* ensureRepo: fs.mkdir(TEMP_DIR), then fs.rm(localPath, recursive, force)
EnsureRm(c) ==
    /\ calls[c].pc = "e_rm"
    /\ repoDir' = "absent"
    /\ calls' = [calls EXCEPT ![c].pc = "e_fetch"]
    /\ UNCHANGED <<analysisCache, now>>
    /\ UNCHANGED serverFixed

\* ensureRepo: fetch of the tarball and fs.writeFile; a response that is not
\* ok or an error ends the call with success: false
EnsureFetch(c, ok) ==
    /\ calls[c].pc = "e_fetch"
    /\ calls' = IF ok THEN [calls EXCEPT ![c].pc = "e_mkdir"]
                ELSE [calls EXCEPT ![c] = AfterEnsure(@, "failure")]
    /\ UNCHANGED <<repoDir, analysisCache, now>>
    /\ UNCHANGED serverFixed

\* ensureRepo: fs.mkdir(localPath, recursive)
EnsureMkdir(c) ==
    /\ calls[c].pc = "e_mkdir"
    /\ repoDir' = IF repoDir = "absent" THEN "partial" ELSE repoDir
    /\ calls' = [calls EXCEPT ![c].pc = "e_extract"]
    /\ UNCHANGED <<analysisCache, now>>
    /\ UNCHANGED serverFixed

\* ensureRepo: extract({file, cwd: localPath}) completes, or throws and the
\* catch block returns success: false, leaving the directory as it is
EnsureExtract(c, ok) ==
    /\ calls[c].pc = "e_extract"
    /\ IF ok /\ repoDir # "absent"
       THEN /\ repoDir' = "complete"
            /\ calls' = [calls EXCEPT ![c] = AfterEnsure(@, "success")]
       ELSE /\ repoDir' = repoDir
            /\ calls' = [calls EXCEPT ![c] = AfterEnsure(@, "failure")]
    /\ UNCHANGED <<analysisCache, now>>
    /\ UNCHANGED serverFixed

\* analyzeRepo: analyzeRepoDependencies(repoId) scans the directory; it
\* returns the empty graph when the scan fails and may reject otherwise
AnalyzeRun(c, throws) ==
    /\ calls[c].pc = "analysis"
    /\ calls' = IF repoDir = "absent"
                THEN [calls EXCEPT ![c].pc = "store", ![c].graph = "empty"]
                ELSE IF throws THEN [calls EXCEPT ![c].pc = "returned", ![c].success = FALSE]
                ELSE [calls EXCEPT ![c].pc = "store", ![c].graph = repoDir]
    /\ UNCHANGED <<repoDir, analysisCache, now>>
    /\ UNCHANGED serverFixed

\* analyzeRepo: analysisCache.set(repoId, {data: graph, timestamp: Date.now()})
AnalyzeStore(c) ==
    /\ calls[c].pc = "store"
    /\ analysisCache' = MapSet(analysisCache, REPO_ID,
                               [data |-> calls[c].graph, timestamp |-> now])
    /\ calls' = [calls EXCEPT ![c].pc = "returned", ![c].success = TRUE,
                              ![c].data = calls[c].graph]
    /\ UNCHANGED <<repoDir, now>>
    /\ UNCHANGED serverFixed

\* the client has its answer; the slot is free for the next call
CallReset(c) ==
    /\ calls[c].pc = "returned"
    /\ calls' = [calls EXCEPT ![c] = NewCall]
    /\ UNCHANGED <<repoDir, analysisCache, now>>
    /\ UNCHANGED serverFixed

\* time passes
Tick ==
    /\ now < MaxTime
    /\ now' = now + 1
    /\ UNCHANGED <<repoDir, analysisCache, calls>>
    /\ UNCHANGED serverFixed

NextServer ==
    \/ \E c \in CallIds : \E op \in {"analyzeRepo", "cloneRepository"} : CallStart(c, op)
    \/ \E c \in CallIds : AnalyzeCheck(c)
    \/ \E c \in CallIds : AnalyzeAccess(c)
    \/ \E c \in CallIds : EnsureAccess(c)
    \/ \E c \in CallIds : EnsureRm(c)
    \/ \E c \in CallIds : \E ok \in BOOLEAN : EnsureFetch(c, ok)
    \/ \E c \in CallIds : EnsureMkdir(c)
    \/ \E c \in CallIds : \E ok \in BOOLEAN : EnsureExtract(c, ok)
    \/ \E c \in CallIds : \E throws \in BOOLEAN : AnalyzeRun(c, throws)
    \/ \E c \in CallIds : AnalyzeStore(c)
    \/ \E c \in CallIds : CallReset(c)
    \/ Tick

SpecServer == InitServer /\ [][NextServer]_vars

\* the repository has a cache entry younger than CACHE_TTL
YoungEntry ==
    /\ REPO_ID \in DOMAIN analysisCache
    /\ now - analysisCache[REPO_ID].timestamp < CACHE_TTL

\* C29 as stated: once the empty graph of a failed scan is stored, the calls
\* of the next CACHE_TTL ticks keep returning it, that is, the entry stays the
\* empty graph for as long as it is young
C29_EmptyGraphKeptWhileYoung ==
    [][(YoungEntry /\ analysisCache[REPO_ID].data = "empty") =>
          (REPO_ID \in DOMAIN analysisCache' /\ analysisCache'[REPO_ID].data = "empty")
    ]_vars

\* C29, amended: analyzeRepo answers from analysisCache, without running the
\* analysis, exactly when the repository has an entry younger than CACHE_TTL;
\* otherwise it runs the analysis, and when the analysis does not reject (the
\* empty graph of a failed scan included) it stores the graph with the current
\* time and returns it; a young entry is replaced only by the store of a call
\* that had missed the cache before
C29_CachedWithinTtl ==
    [][/\ \A c \in CallIds :
          /\ (calls[c].pc = "check" /\ calls'[c].pc # "check") =>
                IF YoungEntry
                THEN /\ calls'[c].pc = "returned"
                     /\ calls'[c].success
                     /\ calls'[c].data = analysisCache[REPO_ID].data
                     /\ calls'[c].graph = "none"
                     /\ analysisCache' = analysisCache
                ELSE calls'[c].pc = "access"
          /\ (calls[c].pc = "analysis" /\ calls'[c].pc # "analysis") =>
                \/ calls'[c].pc = "store" /\ calls'[c].graph # "none"
                \/ calls'[c].pc = "returned" /\ ~calls'[c].success /\ repoDir # "absent"
          /\ (calls[c].pc = "analysis" /\ calls'[c].pc # "analysis" /\ repoDir = "absent") =>
                calls'[c].graph = "empty"
          /\ (calls[c].pc = "store" /\ calls'[c].pc # "store") =>
                /\ REPO_ID \in DOMAIN analysisCache'
                /\ analysisCache'[REPO_ID] = [data |-> calls[c].graph, timestamp |-> now]
                /\ calls'[c].pc = "returned"
                /\ calls'[c].success
                /\ calls'[c].data = calls[c].graph
       /\ (YoungEntry /\ \A c \in CallIds : calls[c].pc # "store") =>
             analysisCache' = analysisCache
    ]_vars

\* a call of analyzeRepo has returned the cached empty graph of a failed scan
\* although the repository directory is now completely extracted, and the
\* entry has reached the age at which the next call will run the analysis
C29_Witness ==
    \E c \in CallIds :
        /\ calls[c].op = "analyzeRepo"
        /\ calls[c].pc = "returned"
        /\ calls[c].success
        /\ calls[c].graph = "none"
        /\ calls[c].data = "empty"
        /\ repoDir = "complete"
        /\ REPO_ID \in DOMAIN analysisCache
        /\ now - analysisCache[REPO_ID].timestamp = CACHE_TTL

\* C30: whenever ensureRepo reports success, the archive is completely
\* extracted into the local directory
C30_SuccessOnlyWhenExtracted ==
    [][\A c \in CallIds :
          (calls[c].ensured = "none" /\ calls'[c].ensured = "success") =>
              repoDir' = "complete"
    ]_vars

====
